---------------------------- MODULE Spec2Model ----------------------------
(***************************************************************************)
(* zhc-nova control plane: the task registry (tasks, task_events,          *)
(* approvals, task_dispatch_lease, idempotency_keys) and the router built  *)
(* on it.                                                                   *)
(*                                                                          *)
(* Every registry operation opens its own connection (connect()), SELECTs  *)
(* the row it decides on, and then INSERTs/UPDATEs and commits.  The       *)
(* sqlite3 module opens the transaction at the first INSERT/UPDATE, not at *)
(* the SELECT, so the read and the write of one operation are two steps    *)
(* between which another connection can commit.  Each operation is         *)
(* therefore written once as a decision over a snapshot of the row, and    *)
(* used twice: atomically (snapshot = the current row; one caller), and as *)
(* a read step followed by a write step (concurrent callers).              *)
(***************************************************************************)
EXTENDS Integers, Sequences, FiniteSets, TLC

VARIABLES
    now,        \* utc_now(): the wall clock, in seconds
    task,       \* tasks table: task_id -> row, or NoTask
    events,     \* task_events table: task_id -> rows in insertion order
    lease,      \* task_dispatch_lease table: task_id -> row, or NoLease
    idem,       \* idempotency_keys table: key -> row, or NoIdem
    approvals,  \* approvals table: task_id -> action_category -> rows by id
    artifacts,  \* planner.md and reviewer.json in each task's directory
    policy,     \* what evaluate_execution_policy answered when the task was routed
    runs,       \* worker invocations so far, per task and attempt_count
    proc,       \* concurrent callers: what each has read and where it stands
    ret,        \* the last finished call and what it returned or raised
    script,     \* observer: how far the calls made so far follow a test's sequence
    bot         \* the telegram ingress: inbox, audit log, replies, offset, rate buckets, lock file

vars == <<now, task, events, lease, idem, approvals, artifacts, policy, runs,
          proc, ret, script, bot>>

\* what the operations on one table leave alone (events and ret apart)
RouterRest == <<artifacts, policy, runs>>
TaskRest == <<now, lease, idem, approvals, RouterRest>>
LeaseRest == <<now, task, idem, approvals, RouterRest>>
IdemRest == <<now, task, events, lease, approvals, RouterRest>>
ApprovalRest == <<now, task, lease, idem, RouterRest>>
NotTaskVars == <<TaskRest, proc, script, bot>>
NotLeaseVars == <<LeaseRest, proc>>

-----------------------------------------------------------------------------
(* Bounds of the model *)

\* rows of task_events the model keeps per task (the table itself is unbounded:
\* rows after the first MaxEvents are not represented)
MaxEvents == 4

\* the clock stops at MaxTime; a lease is claimed at most MaxAttempts times
MaxTime == 3
MaxAttempts == 2
MaxDeliveries == 2

\* greatest value of ZHC_DISPATCH_RETRY_MAX the model sets
MaxRetry == 2

\* the clock of the rate limiter stops at MaxClock (steps of five seconds)
MaxClock == 13

\* fetch cycles of one ingress process the model follows
MaxPolls == 3

\* fetch cycles of the poll loop whose backoff is followed
MaxCycles == 4

\* lines of a context text handed to the compaction
MaxLines == 3

TaskIds == {"t1", "t2"}
Categories == {"deploy_restart", "manual_review", "supervised_heavy_execution"}
OwnerIds == {"owner-a", "owner-b"}
ProcIds == {"p1", "p2"}

NoTask == [status |-> "none", route_class |-> "", requires_approval |-> FALSE]
NoLease == [owner_id |-> "", lease_status |-> "none", attempt_count |-> 0,
            lease_expires_at |-> 0, last_error |-> ""]
NoIdem == [payload_hash |-> <<>>, status |-> "none", result |-> ""]
NoApproval == [status |-> "none", requested_by |-> "", decided_by |-> ""]
NoArtifacts == [planner |-> FALSE, verdict |-> "missing", checklist |-> "none"]
Idle == [pc |-> "idle"]
NoRet == [op |-> "none"]

\* keys of idempotency_keys: "dispatch:{task_id}:{attempt_count}" and the key of
\* the registry test, "tg_update:42"
DispatchKey(t, n) == <<"dispatch", t, n>>
TgKey == <<"tg_update", "42", 0>>
IdemKeys == {DispatchKey(t, n) : t \in TaskIds, n \in 0..(MaxAttempts + 1)} \cup {TgKey}

-----------------------------------------------------------------------------
(* task_registry.py: statuses and the transition table *)

VALID_TASK_STATUSES ==
    {"requested", "pending", "approved", "queued", "running", "blocked",
     "succeeded", "failed", "cancelled", "canceled", "expired"}

TERMINAL_STATUSES == {"succeeded", "failed", "cancelled", "canceled", "expired"}

ALLOWED_STATUS_TRANSITIONS(s) ==
    CASE s = "requested" -> {"approved", "queued", "running", "blocked", "cancelled", "failed"}
      [] s = "pending"   -> {"approved", "queued", "running", "blocked", "cancelled", "failed"}
      [] s = "approved"  -> {"queued", "running", "blocked", "cancelled", "failed"}
      [] s = "queued"    -> {"queued", "running", "blocked", "cancelled", "failed", "expired"}
      [] s = "running"   -> {"running", "succeeded", "failed", "blocked", "cancelled", "expired"}
      [] s = "blocked"   -> {"approved", "queued", "running", "succeeded", "failed",
                             "cancelled", "expired"}
      [] s = "succeeded" -> {"succeeded"}
      [] s = "failed"    -> {"failed"}
      [] s = "cancelled" -> {"cancelled"}
      [] s = "canceled"  -> {"canceled"}
      [] s = "expired"   -> {"expired"}
      [] OTHER           -> {}

\* update_task, finish_dispatch_lease: the spelling "canceled" is read as "cancelled"
NormStatus(s) == IF s = "canceled" THEN "cancelled" ELSE s

\* append_event: one more row of task_events
Event(type, detail) == [type |-> type, detail |-> detail]

\* (mutant) the new row is read before the older ones
PrependEvent(log, type, detail) ==
    IF Len(log) < MaxEvents THEN <<Event(type, detail)>> \o log ELSE log

AppendEvent(log, type, detail) ==
    IF Len(log) < MaxEvents THEN Append(log, Event(type, detail)) ELSE log

\* "detail or next_status"
DetailOr(detail, dflt) == IF detail = "" THEN dflt ELSE detail

\* get_task: the rows of task_events of the task, ORDER BY id ASC
GetTaskEvents(t) == events[t]

\* the sequence a is the beginning of the sequence b
IsPrefix(a, b) == Len(a) <= Len(b) /\ SubSeq(b, 1, Len(a)) = a

-----------------------------------------------------------------------------
(* create_task *)

CreateTaskWrite(t, status, route_class, requires_approval) ==
    /\ task[t] = NoTask
    /\ task' = [task EXCEPT ![t] = [status |-> status,
                                    route_class |-> route_class,
                                    requires_approval |-> requires_approval]]
    /\ events' = [events EXCEPT ![t] = AppendEvent(@, "created", route_class)]
    /\ ret' = [op |-> "create_task", task |-> t, result |-> "ok", status |-> status]

create_task(t, status, route_class, requires_approval) ==
    /\ CreateTaskWrite(t, status, route_class, requires_approval)
    /\ UNCHANGED NotTaskVars

-----------------------------------------------------------------------------
(* update_task *)

\* (mutant) the table is consulted for terminal statuses only
UpdateVerdictTerminalOnly(cur, next, force) ==
    IF force \/ cur \notin TERMINAL_STATUSES THEN "ok"
    ELSE IF NormStatus(next) \in ALLOWED_STATUS_TRANSITIONS(cur) THEN "ok"
    ELSE "InvalidTransition"

\* the decision update_task takes on the status it has SELECTed
UpdateVerdict(cur, next, force) ==
    IF force THEN "ok"
    ELSE IF NormStatus(next) \in ALLOWED_STATUS_TRANSITIONS(cur) THEN "ok"
    ELSE "InvalidTransition"

\* the UPDATE, the event row and the commit, decided on the status `cur` read before
UpdateTaskWrite(t, cur, next, force, detail, who) ==
    LET verdict == UpdateVerdict(cur, next, force) IN
    IF verdict = "ok"
    THEN /\ task' = [task EXCEPT ![t].status = NormStatus(next)]
         /\ events' = [events EXCEPT
                ![t] = AppendEvent(@, "status_updated", DetailOr(detail, NormStatus(next)))]
         /\ ret' = [op |-> "update_task", task |-> t, by |-> who, result |-> "ok",
                    cur |-> cur, next |-> next, force |-> force,
                    status |-> NormStatus(next)]
    ELSE /\ UNCHANGED <<task, events>>
         /\ ret' = [op |-> "update_task", task |-> t, by |-> who, result |-> verdict,
                    cur |-> cur, next |-> next, force |-> force,
                    status |-> task[t].status]

\* update_task refused before it decides: unknown status word, unknown task
UpdateTaskRefused(t, next, force, who) ==
    /\ \/ next \notin VALID_TASK_STATUSES
       \/ task[t] = NoTask
    /\ ret' = [op |-> "update_task", task |-> t, by |-> who,
               result |-> IF next \notin VALID_TASK_STATUSES
                          THEN "InvalidArgument" ELSE "NotFound",
               cur |-> task[t].status, next |-> next, force |-> force,
               status |-> task[t].status]
    /\ UNCHANGED <<task, events>>

\* one caller: the whole call
update_task(t, next, force, detail) ==
    /\ \/ UpdateTaskRefused(t, next, force, "caller")
       \/ /\ next \in VALID_TASK_STATUSES
          /\ task[t] # NoTask
          /\ UpdateTaskWrite(t, NormStatus(task[t].status), next, force, detail, "caller")
    /\ UNCHANGED NotTaskVars

\* concurrent callers: the SELECT ...
UpdRead(p, t, next, force, detail) ==
    /\ proc[p].pc = "idle"
    /\ \/ /\ UpdateTaskRefused(t, next, force, p)
          /\ UNCHANGED proc
       \/ /\ next \in VALID_TASK_STATUSES
          /\ task[t] # NoTask
          /\ proc' = [proc EXCEPT ![p] =
                [pc |-> "upd_write", task |-> t, cur |-> NormStatus(task[t].status),
                 next |-> next, force |-> force, detail |-> detail]]
          /\ ret' = [op |-> "read", by |-> p]
          /\ UNCHANGED <<task, events>>
    /\ UNCHANGED <<TaskRest, script, bot>>

\* ... and, later, the check on what was read, the UPDATE and the commit
UpdWrite(p) ==
    /\ proc[p].pc = "upd_write"
    /\ UpdateTaskWrite(proc[p].task, proc[p].cur, proc[p].next, proc[p].force,
                       proc[p].detail, p)
    /\ proc' = [proc EXCEPT ![p] = Idle]
    /\ UNCHANGED <<TaskRest, script, bot>>

-----------------------------------------------------------------------------
(* create_task and update_task, statement by statement: the INSERT or      *)
(* UPDATE of the tasks row opens the transaction, append_event adds its    *)
(* row to it, conn.commit() makes both visible.  An exception or the end   *)
(* of the process before the commit rolls the transaction back.            *)

TaskStmt(t, row) == [table |-> "tasks", task |-> t, row |-> row]
EventStmt(t, type, detail) == [table |-> "task_events", task |-> t, event |-> Event(type, detail)]

\* the tables after the statements `stmts` (at most one per table and task)
TasksWith(stmts) ==
    [t \in TaskIds |->
        LET w == {i \in DOMAIN stmts : stmts[i].table = "tasks" /\ stmts[i].task = t}
        IN  IF w = {} THEN task[t] ELSE stmts[CHOOSE i \in w : TRUE].row]

EventsWith(stmts) ==
    [t \in TaskIds |->
        LET w == {i \in DOMAIN stmts : stmts[i].table = "task_events" /\ stmts[i].task = t}
        IN  IF w = {} THEN events[t]
            ELSE LET e == stmts[CHOOSE i \in w : TRUE].event
                 IN  AppendEvent(events[t], e.type, e.detail)]

\* (mutant) every statement is durable once it has run
RollbackNothing(stmts) == stmts

\* what a transaction that did not reach its commit leaves behind: nothing
Rollback(stmts) == <<>>

\* create_task: the INSERT INTO tasks has run
TxCreate(p, t, status, route_class, requires_approval) ==
    /\ proc[p].pc = "idle"
    /\ task[t] = NoTask
    /\ proc' = [proc EXCEPT ![p] =
          [pc |-> "tx", op |-> "create_task", task |-> t, status |-> status,
           stmts |-> <<TaskStmt(t, [status |-> status, route_class |-> route_class,
                                    requires_approval |-> requires_approval])>>,
           event |-> EventStmt(t, "created", route_class)]]
    /\ ret' = [op |-> "execute", by |-> p]
    /\ UNCHANGED <<task, events>>

\* update_task: the checks have passed and the UPDATE tasks has run
TxUpdate(p, t, next, force, detail) ==
    /\ proc[p].pc = "idle"
    /\ next \in VALID_TASK_STATUSES
    /\ task[t] # NoTask
    /\ UpdateVerdict(NormStatus(task[t].status), next, force) = "ok"
    /\ proc' = [proc EXCEPT ![p] =
          [pc |-> "tx", op |-> "update_task", task |-> t, status |-> NormStatus(next),
           stmts |-> <<TaskStmt(t, [task[t] EXCEPT !.status = NormStatus(next)])>>,
           event |-> EventStmt(t, "status_updated", DetailOr(detail, NormStatus(next)))]]
    /\ ret' = [op |-> "execute", by |-> p]
    /\ UNCHANGED <<task, events>>

\* append_event has run
TxAppendEvent(p) ==
    /\ proc[p].pc = "tx"
    /\ Len(proc[p].stmts) = 1
    /\ proc' = [proc EXCEPT ![p].stmts = Append(@, proc[p].event)]
    /\ ret' = [op |-> "execute", by |-> p]
    /\ UNCHANGED <<task, events>>

\* conn.commit()
TxCommit(p) ==
    /\ proc[p].pc = "tx"
    /\ Len(proc[p].stmts) = 2
    /\ task' = TasksWith(proc[p].stmts)
    /\ events' = EventsWith(proc[p].stmts)
    /\ ret' = [op |-> proc[p].op, task |-> proc[p].task, result |-> "ok",
               status |-> proc[p].status, executed |-> 2]
    /\ proc' = [proc EXCEPT ![p] = Idle]

\* an exception, or the process ends, after one or two statements
TxFail(p) ==
    /\ proc[p].pc = "tx"
    /\ task' = TasksWith(Rollback(proc[p].stmts))
    /\ events' = EventsWith(Rollback(proc[p].stmts))
    /\ ret' = [op |-> proc[p].op, task |-> proc[p].task, result |-> "failed",
               status |-> proc[p].status, executed |-> Len(proc[p].stmts)]
    /\ proc' = [proc EXCEPT ![p] = Idle]

-----------------------------------------------------------------------------
(* task_dispatch_lease: one row per task.  The columns heartbeat_at,       *)
(* created_at and updated_at are timestamps no operation reads; they are   *)
(* not represented.                                                        *)

ACTIVE_LEASE_STATUSES == {"queued", "running"}
LEASE_TERMINAL == {"succeeded", "failed", "cancelled", "expired"}

\* max(1, lease_seconds)
LeaseSpan(lease_seconds) == IF lease_seconds < 1 THEN 1 ELSE lease_seconds

\* (mutant) a lease is still held at the instant of its expiry
LeaseExpiredAfter(row, nowv) == row.lease_expires_at < nowv

\* "expired = not current_exp or current_exp <= now_dt"
LeaseExpired(row, nowv) == row.lease_expires_at <= nowv

LeaseRet(op, t, owner, result, claimed, reason) ==
    [op |-> op, task |-> t, owner |-> owner, result |-> result,
     claimed |-> claimed, reason |-> reason, at |-> now]

\* ensure_task_exists fails: nothing is read or written
LeaseNotFound(op, t, owner) ==
    /\ task[t] = NoTask
    /\ ret' = LeaseRet(op, t, owner, "NotFound", FALSE, "")
    /\ UNCHANGED <<lease, events>>

\* the row exists already when the INSERT runs: task_id is the table's key
LeaseInsertRefused(op, t, owner) ==
    /\ ret' = LeaseRet(op, t, owner, "IntegrityConflict", FALSE, "")
    /\ UNCHANGED <<lease, events>>

\* enqueue_dispatch_lease, decided on the row `row` read at time `nowv`
EnqueueWrite(t, row, nowv, owner, lease_seconds) ==
    LET expires == nowv + LeaseSpan(lease_seconds) IN
    IF row = NoLease
    THEN IF lease[t] # NoLease
         THEN LeaseInsertRefused("enqueue", t, owner)
         ELSE /\ lease' = [lease EXCEPT ![t] =
                    [owner_id |-> owner, lease_status |-> "queued", attempt_count |-> 0,
                     lease_expires_at |-> expires, last_error |-> ""]]
              /\ events' = [events EXCEPT ![t] = AppendEvent(@, "lease", "enqueue")]
              /\ ret' = LeaseRet("enqueue", t, owner, "ok", FALSE, "enqueue")
    ELSE IF row.lease_status \in LEASE_TERMINAL \/ LeaseExpired(row, nowv)
    THEN /\ lease' = [lease EXCEPT ![t].owner_id = owner,
                                   ![t].lease_status = "queued",
                                   ![t].lease_expires_at = expires]
         /\ events' = [events EXCEPT ![t] = AppendEvent(@, "lease", "enqueue_reset")]
         /\ ret' = LeaseRet("enqueue", t, owner, "ok", FALSE, "enqueue_reset")
    ELSE /\ UNCHANGED lease
         /\ events' = [events EXCEPT ![t] = AppendEvent(@, "lease", "enqueue_noop")]
         /\ ret' = LeaseRet("enqueue", t, owner, "ok", FALSE, "enqueue_noop")

\* (mutant) a claim never finds the lease held by another owner
ClaimHeldByOtherNever(row, nowv, owner) == FALSE

\* "status == running and not expired and current_owner != owner_id"
ClaimHeldByOther(row, nowv, owner) ==
    row.lease_status = "running" /\ ~LeaseExpired(row, nowv) /\ row.owner_id # owner

\* "status == running and not expired and current_owner == owner_id"
ClaimHeldBySelf(row, nowv, owner) ==
    row.lease_status = "running" /\ ~LeaseExpired(row, nowv) /\ row.owner_id = owner

\* (mutant) a reclaim keeps the attempt count
NextAttemptSame(row) == row.attempt_count

\* "next_attempt = attempt_count + 1"
NextAttempt(row) == row.attempt_count + 1

\* claim_dispatch_lease, decided on the row `row` read at time `nowv`
ClaimWrite(t, row, nowv, owner, lease_seconds) ==
    LET expires == nowv + LeaseSpan(lease_seconds) IN
    IF row = NoLease
    THEN IF lease[t] # NoLease
         THEN LeaseInsertRefused("claim", t, owner)
         ELSE /\ lease' = [lease EXCEPT ![t] =
                    [owner_id |-> owner, lease_status |-> "running", attempt_count |-> 1,
                     lease_expires_at |-> expires, last_error |-> ""]]
              /\ events' = [events EXCEPT ![t] = AppendEvent(@, "lease", "claim_new")]
              /\ ret' = LeaseRet("claim", t, owner, "ok", TRUE, "created")
    ELSE IF ClaimHeldByOther(row, nowv, owner)
    THEN /\ UNCHANGED lease
         /\ events' = [events EXCEPT ![t] = AppendEvent(@, "lease", "claim_denied")]
         /\ ret' = LeaseRet("claim", t, owner, "ok", FALSE, "held_by_other_owner")
    ELSE IF ClaimHeldBySelf(row, nowv, owner)
    THEN /\ lease' = [lease EXCEPT ![t].lease_expires_at = expires]
         /\ events' = [events EXCEPT ![t] = AppendEvent(@, "lease", "claim_refresh")]
         /\ ret' = LeaseRet("claim", t, owner, "ok", TRUE, "refreshed")
    ELSE /\ lease' = [lease EXCEPT ![t].owner_id = owner,
                                   ![t].lease_status = "running",
                                   ![t].attempt_count = NextAttempt(row),
                                   ![t].lease_expires_at = expires]
         /\ events' = [events EXCEPT ![t] = AppendEvent(@, "lease", "claim")]
         /\ ret' = LeaseRet("claim", t, owner, "ok", TRUE, "claimed")

\* (mutant) any owner may heartbeat or finish a lease
OwnerMismatchNever(row, owner) == FALSE

\* heartbeat_dispatch_lease, finish_dispatch_lease: the row belongs to another owner
OwnerMismatch(row, owner) == row.owner_id # owner

\* heartbeat_dispatch_lease
HeartbeatWrite(t, row, nowv, owner, lease_seconds) ==
    IF row = NoLease \/ OwnerMismatch(row, owner) \/ row.lease_status # "running"
    THEN /\ ret' = LeaseRet("heartbeat", t, owner, "InvalidArgument", FALSE,
                            IF row = NoLease THEN "no_lease"
                            ELSE IF OwnerMismatch(row, owner) THEN "owner_mismatch"
                            ELSE "not_running")
         /\ UNCHANGED <<lease, events>>
    ELSE /\ lease' = [lease EXCEPT ![t].lease_expires_at = nowv + LeaseSpan(lease_seconds)]
         /\ events' = [events EXCEPT ![t] = AppendEvent(@, "lease", "heartbeat")]
         /\ ret' = LeaseRet("heartbeat", t, owner, "ok", FALSE, "heartbeat")

\* finish_dispatch_lease: utc_now() is taken after the argument check
FinishWrite(t, row, nowv, owner, result_status, last_error) ==
    IF row = NoLease \/ OwnerMismatch(row, owner)
    THEN /\ ret' = LeaseRet("finish", t, owner, "InvalidArgument", FALSE,
                            IF row = NoLease THEN "no_lease" ELSE "owner_mismatch")
         /\ UNCHANGED <<lease, events>>
    ELSE /\ lease' = [lease EXCEPT ![t].lease_status = NormStatus(result_status),
                                   ![t].lease_expires_at = nowv,
                                   ![t].last_error = last_error]
         /\ events' = [events EXCEPT ![t] = AppendEvent(@, "lease", "finish")]
         /\ ret' = LeaseRet("finish", t, owner, "ok", FALSE, NormStatus(result_status))

\* one caller: the whole calls
enqueue_dispatch_lease(t, owner, lease_seconds) ==
    /\ \/ LeaseNotFound("enqueue", t, owner)
       \/ task[t] # NoTask /\ EnqueueWrite(t, lease[t], now, owner, lease_seconds)
    /\ UNCHANGED NotLeaseVars

claim_dispatch_lease(t, owner, lease_seconds) ==
    /\ \/ LeaseNotFound("claim", t, owner)
       \/ task[t] # NoTask /\ ClaimWrite(t, lease[t], now, owner, lease_seconds)
    /\ UNCHANGED NotLeaseVars

heartbeat_dispatch_lease(t, owner, lease_seconds) ==
    /\ \/ LeaseNotFound("heartbeat", t, owner)
       \/ task[t] # NoTask /\ HeartbeatWrite(t, lease[t], now, owner, lease_seconds)
    /\ UNCHANGED NotLeaseVars

finish_dispatch_lease(t, owner, result_status, last_error) ==
    /\ IF NormStatus(result_status) \notin LEASE_TERMINAL
       THEN /\ ret' = LeaseRet("finish", t, owner, "InvalidArgument", FALSE, "result_status")
            /\ UNCHANGED <<lease, events>>
       ELSE \/ LeaseNotFound("finish", t, owner)
            \/ task[t] # NoTask /\ FinishWrite(t, lease[t], now, owner, result_status, last_error)
    /\ UNCHANGED NotLeaseVars

\* (mutant) reconcile requeues every active lease, expired or not
ReconcileDueAll(t, nowv) ==
    /\ lease[t] # NoLease
    /\ lease[t].lease_status \in ACTIVE_LEASE_STATUSES

\* reconcile_dispatch_leases: every active lease whose expiry has passed
ReconcileDue(t, nowv) ==
    /\ lease[t] # NoLease
    /\ lease[t].lease_status \in ACTIVE_LEASE_STATUSES
    /\ ~(lease[t].lease_expires_at > nowv)

ReconcileWrite(owner) ==
    LET due == {t \in TaskIds : ReconcileDue(t, now)} IN
    /\ lease' = [t \in TaskIds |->
                    IF t \in due
                    THEN [lease[t] EXCEPT !.owner_id = owner,
                                          !.lease_status = "queued",
                                          !.last_error = "lease_expired_reconciled"]
                    ELSE lease[t]]
    /\ events' = [t \in TaskIds |->
                    IF t \in due THEN AppendEvent(events[t], "lease", "reconcile_expired")
                    ELSE events[t]]
    /\ ret' = [op |-> "reconcile", owner |-> owner, result |-> "ok",
               reconciled |-> Cardinality(due)]

reconcile_dispatch_leases(owner) ==
    /\ ReconcileWrite(owner)
    /\ UNCHANGED NotLeaseVars

\* concurrent callers of claim_dispatch_lease: utc_now_dt() and the SELECT ...
ClaimRead(p, t, owner, lease_seconds) ==
    /\ proc[p].pc = "idle"
    /\ task[t] # NoTask
    /\ proc' = [proc EXCEPT ![p] =
            [pc |-> "claim_write", task |-> t, owner |-> owner, row |-> lease[t],
             nowv |-> now, seconds |-> lease_seconds, held_until |-> @.held_until]]
    /\ ret' = [op |-> "read", by |-> p]
    /\ UNCHANGED <<LeaseRest, lease, events, script, bot>>

\* ... and, later, the decision on what was read, the INSERT or UPDATE and the
\* commit; the caller that is told claimed=true holds the lease until `expires`
ClaimWriteStep(p) ==
    /\ proc[p].pc = "claim_write"
    /\ ClaimWrite(proc[p].task, proc[p].row, proc[p].nowv, proc[p].owner, proc[p].seconds)
    /\ proc' = [proc EXCEPT ![p] =
            [pc |-> "idle",
             held_until |-> IF ret'.claimed
                            THEN proc[p].nowv + LeaseSpan(proc[p].seconds)
                            ELSE @.held_until]]
    /\ UNCHANGED <<LeaseRest, script, bot>>

-----------------------------------------------------------------------------
(* task_registry.py: idempotency keys *)

IDEM_STATUSES == {"processing", "completed", "conflict"}

IdemRet(op, key, result, exists, conflict, status, stored) ==
    [op |-> op, key |-> key, result |-> result, exists |-> exists,
     conflict |-> conflict, status |-> status, stored |-> stored, hash |-> <<>>]

\* the row exists already when the INSERT runs: key is the table's key
IdemInsertRefused(key, payload_hash) ==
    /\ ret' = [IdemRet("begin", key, "IntegrityConflict", FALSE, FALSE, "", "")
                 EXCEPT !.hash = payload_hash]
    /\ UNCHANGED idem

\* "status": str(row["status"]) of the begin that finds its own hash
StoredStatus(row) == row.status

\* begin_idempotency, decided on the row `row`
BeginWrite(key, row, payload_hash) ==
    IF row = NoIdem
    THEN IF idem[key] # NoIdem
         THEN IdemInsertRefused(key, payload_hash)
         ELSE /\ idem' = [idem EXCEPT ![key] =
                    [payload_hash |-> payload_hash, status |-> "processing", result |-> ""]]
              /\ ret' = [IdemRet("begin", key, "ok", FALSE, FALSE, "processing", "")
                           EXCEPT !.hash = payload_hash]
    ELSE IF row.payload_hash # payload_hash
    THEN /\ idem' = [idem EXCEPT ![key].status = "conflict"]
         /\ ret' = [IdemRet("begin", key, "ok", TRUE, TRUE, "conflict", row.result)
                      EXCEPT !.hash = payload_hash]
    ELSE /\ UNCHANGED idem
         /\ ret' = [IdemRet("begin", key, "ok", TRUE, FALSE, StoredStatus(row), row.result)
                      EXCEPT !.hash = payload_hash]

begin_idempotency(key, payload_hash) ==
    /\ BeginWrite(key, idem[key], payload_hash)
    /\ UNCHANGED <<IdemRest, proc>>

\* complete_idempotency: the status is checked before the table is opened
CompleteWrite(key, status, result) ==
    IF status \notin IDEM_STATUSES
    THEN /\ ret' = [IdemRet("complete", key, "InvalidArgument", FALSE, FALSE, status, result)
                      EXCEPT !.hash = <<>>]
         /\ UNCHANGED idem
    ELSE IF idem[key] = NoIdem
    THEN /\ ret' = [IdemRet("complete", key, "NotFound", FALSE, FALSE, status, result)
                      EXCEPT !.hash = <<>>]
         /\ UNCHANGED idem
    ELSE /\ idem' = [idem EXCEPT ![key].status = status, ![key].result = result]
         /\ ret' = [IdemRet("complete", key, "ok", TRUE, FALSE, status, result)
                      EXCEPT !.hash = <<>>]

complete_idempotency(key, status, result) ==
    /\ CompleteWrite(key, status, result)
    /\ UNCHANGED <<IdemRest, proc>>

-----------------------------------------------------------------------------
(* task_registry.py: approvals (the rows of a task and action_category in  *)
(* the order of their ids)                                                 *)

ApprovalRet(op, t, category, decision, result) ==
    [op |-> op, task |-> t, category |-> category, decision |-> decision,
     result |-> result]

\* SELECT id, status ... ORDER BY id DESC LIMIT 1: the id is the position of
\* the row among the rows of its task and category, 0 when there is none
LatestId(t, category) == Len(approvals[t][category])

LatestApproval(t, category) ==
    IF approvals[t][category] = <<>>
    THEN NoApproval
    ELSE approvals[t][category][LatestId(t, category)]

\* the statements request_approval runs after its SELECT returned the row
\* (id, status): INSERT when there was none, UPDATE ... WHERE id = ? when
\* the row was "required", the event alone otherwise
RequestApprovalApply(t, category, requested_by, id, status) ==
    /\ approvals' = [approvals EXCEPT ![t][category] =
            IF id = 0
            THEN Append(@, [status |-> "required", requested_by |-> requested_by,
                             decided_by |-> ""])
            ELSE IF status = "required"
            THEN [@ EXCEPT ![id].requested_by = requested_by]
            ELSE @]
    /\ events' = [events EXCEPT ![t] = AppendEvent(@, "approval_requested", category)]
    /\ ret' = ApprovalRet("approval_request", t, category, "", "ok")

\* request_approval: a new row "required", or the row that is there refreshed
RequestApprovalWrite(t, category, requested_by) ==
    IF task[t] = NoTask
    THEN /\ ret' = ApprovalRet("approval_request", t, category, "", "NotFound")
         /\ UNCHANGED <<approvals, events>>
    ELSE RequestApprovalApply(t, category, requested_by, LatestId(t, category),
                              LatestApproval(t, category).status)

\* decide_approval: the latest row of the category; a row "required" is
\* inserted first when the category has none
DecideRow(t, category) ==
    IF approvals[t][category] = <<>>
    THEN [status |-> "required", requested_by |-> "auto_created", decided_by |-> ""]
    ELSE LatestApproval(t, category)

\* (mutant) a decision on a terminal row is refused, the same decision included
DecideApprovalApplyStrict(t, category, decision, decided_by, id, status) ==
    IF id # 0 /\ status \in {"approved", "rejected", "cancelled"}
    THEN /\ UNCHANGED <<approvals, events>>
         /\ ret' = ApprovalRet("approval_decide", t, category, decision, "InvalidArgument")
    ELSE /\ approvals' = [approvals EXCEPT ![t][category] =
                IF id = 0
                THEN Append(@, [status |-> decision, requested_by |-> "auto_created",
                                decided_by |-> decided_by])
                ELSE [@ EXCEPT ![id].status = decision, ![id].decided_by = decided_by]]
         /\ events' = [events EXCEPT ![t] = AppendEvent(@, "approval_decision", decision)]
         /\ ret' = ApprovalRet("approval_decide", t, category, decision, "ok")

\* the statements decide_approval runs after its SELECT returned the row
\* (id, status); with no row it inserts one and selects again, inside the
\* transaction the INSERT opened, so the row it decides is the latest one
DecideApprovalApply(t, category, decision, decided_by, id, status) ==
    IF id # 0 /\ status \in {"approved", "rejected", "cancelled"}
    THEN IF status = decision
         THEN /\ UNCHANGED approvals
              /\ events' = [events EXCEPT ![t] = AppendEvent(@, "approval_decision", "no_op")]
              /\ ret' = ApprovalRet("approval_decide", t, category, decision, "ok")
         ELSE /\ UNCHANGED <<approvals, events>>
              /\ ret' = ApprovalRet("approval_decide", t, category, decision, "InvalidArgument")
    ELSE /\ approvals' = [approvals EXCEPT ![t][category] =
                IF id = 0
                THEN Append(@, [status |-> decision, requested_by |-> "auto_created",
                                decided_by |-> decided_by])
                ELSE [@ EXCEPT ![id].status = decision, ![id].decided_by = decided_by]]
         /\ events' = [events EXCEPT ![t] = AppendEvent(@, "approval_decision", decision)]
         /\ ret' = ApprovalRet("approval_decide", t, category, decision, "ok")

DecideApprovalWrite(t, category, decision, decided_by) ==
    IF decision \notin {"approved", "rejected"}
    THEN /\ ret' = ApprovalRet("approval_decide", t, category, decision, "InvalidArgument")
         /\ UNCHANGED <<approvals, events>>
    ELSE IF task[t] = NoTask
    THEN /\ ret' = ApprovalRet("approval_decide", t, category, decision, "NotFound")
         /\ UNCHANGED <<approvals, events>>
    ELSE DecideApprovalApply(t, category, decision, decided_by, LatestId(t, category),
                             LatestApproval(t, category).status)

\* one caller: the whole call
request_approval(t, category, requested_by) ==
    /\ RequestApprovalWrite(t, category, requested_by)
    /\ UNCHANGED <<ApprovalRest, proc, script, bot>>

decide_approval(t, category, decision, decided_by) ==
    /\ DecideApprovalWrite(t, category, decision, decided_by)
    /\ UNCHANGED <<ApprovalRest, proc, script, bot>>

\* concurrent callers: the two SELECTs of a call open no transaction; the
\* INSERT or UPDATE that follows opens one, which the commit closes.  A call
\* is the SELECTs (ApprRead) and, later, the transaction (ApprWrite).
ApprRead(p, op, t, category, who, decision) ==
    /\ proc[p].pc = "idle"
    /\ IF op = "decide" /\ decision \notin {"approved", "rejected"}
       THEN /\ ret' = ApprovalRet("approval_decide", t, category, decision, "InvalidArgument")
            /\ UNCHANGED proc
       ELSE IF task[t] = NoTask
       THEN /\ ret' = ApprovalRet(IF op = "decide" THEN "approval_decide"
                                  ELSE "approval_request", t, category,
                                  IF op = "decide" THEN decision ELSE "", "NotFound")
            /\ UNCHANGED proc
       ELSE /\ proc' = [proc EXCEPT ![p] =
                  [pc |-> "appr_write", op |-> op, task |-> t, category |-> category,
                   who |-> who, decision |-> decision,
                   id |-> LatestId(t, category),
                   status |-> LatestApproval(t, category).status]]
            /\ ret' = [op |-> "read", by |-> p]
    /\ UNCHANGED <<approvals, events, ApprovalRest, script, bot>>

ApprWrite(p) ==
    /\ proc[p].pc = "appr_write"
    /\ IF proc[p].op = "request"
       THEN RequestApprovalApply(proc[p].task, proc[p].category, proc[p].who,
                                 proc[p].id, proc[p].status)
       ELSE DecideApprovalApply(proc[p].task, proc[p].category, proc[p].decision,
                                proc[p].who, proc[p].id, proc[p].status)
    /\ proc' = [proc EXCEPT ![p] = Idle]
    /\ UNCHANGED <<ApprovalRest, script, bot>>

-----------------------------------------------------------------------------
(* router.py: classification, approval policy, execution policy *)

VALID_AUTONOMY_MODES == {"readonly", "supervised", "auto"}
VALID_RUNTIME_MODES == {"single_node", "multi_node"}

\* the requests the model routes: a task type, and a prompt that is plain or
\* holds a heavy keyword, a high-risk keyword or a blocked keyword
TaskTypes == {"ping", "code_refactor", "deploy", "mystery"}
Prompts == {"plain", "heavy", "risky", "forbidden"}
Enforcements == {"strict", "warn"}

\* the policy files the model runs with: routing.yaml overrides route
\* code_refactor and deploy to UBUNTU_HEAVY with risk medium; approvals.yaml
\* gates deploy_restart; execution_policy.yaml lists ping for PI_LIGHT and
\* code_refactor, deploy for UBUNTU_HEAVY
HeavyTypes == {"code_refactor", "deploy"}
AllowedTaskTypes(route_class) ==
    IF route_class = "PI_LIGHT" THEN {"ping"} ELSE {"code_refactor", "deploy"}

classify(task_type, prompt) ==
    [route_class |-> IF prompt = "heavy" \/ task_type \in HeavyTypes
                     THEN "UBUNTU_HEAVY" ELSE "PI_LIGHT",
     risk_level |-> IF prompt = "risky" THEN "high"
                    ELSE IF task_type \in HeavyTypes THEN "medium" ELSE "low"]

requires_approval(risk_level, task_type) ==
    risk_level = "high" \/ task_type = "deploy"

action_category_for_task(task_type, risk_level) ==
    IF task_type = "deploy" THEN "deploy_restart"
    ELSE IF risk_level = "high" THEN "manual_review"
    ELSE "none"

\* "if enforcement not in {strict, warn}: enforcement = strict"
Enforcement(raw) == IF raw \in {"strict", "warn"} THEN raw ELSE "strict"

\* evaluate_execution_policy under the policy file whose allowlist for the
\* route class is `allowed`, for a prompt that holds a blocked keyword
\* (keyword), a blocked path (path), both or neither: the reason code;
\* "allowed" when it allows
EvaluatePolicy(task_type, keyword, path, mode, raw_enforcement, allowed) ==
    LET enforcement == Enforcement(raw_enforcement) IN
    IF mode = "readonly" THEN "readonly_mode"
    ELSE IF allowed # {} /\ task_type \notin allowed /\ enforcement = "strict"
    THEN "unknown_task_type"
    ELSE IF keyword /\ enforcement = "strict"
    THEN "blocked_prompt_keyword"
    ELSE IF path /\ enforcement = "strict"
    THEN "blocked_path_pattern"
    ELSE "allowed"

\* evaluate_execution_policy under the policy files of the model, whose only
\* deny rule is a prompt keyword
evaluate_execution_policy(task_type, prompt, route_class, mode, enforcement) ==
    EvaluatePolicy(task_type, prompt = "forbidden", FALSE, mode, enforcement,
                   AllowedTaskTypes(route_class))

\* the evaluator is applied to the request and the policy that script holds
PolicyEvaluate ==
    /\ ret = NoRet
    /\ ret' = [op |-> "evaluate_execution_policy",
               reason |-> EvaluatePolicy(script.task_type, script.keyword, script.path,
                                         script.mode, script.enforcement, script.allowed)]

-----------------------------------------------------------------------------
(* router.py: planner and reviewer artifacts, the review gate *)

\* the checklist a caller hands to record_review: every key true, some key
\* false, some key missing or not a boolean, or a text that is not a JSON
\* object; record_review stores bool(val) for booleans and false for
\* anything else
Checklists == {"all_true", "some_false", "not_bool", "not_json"}
StoredChecklist(checklist) == IF checklist = "all_true" THEN "all_true" ELSE "some_false"

\* all(isinstance(checklist.get(k), bool) for k in REVIEW_CHECKLIST_KEYS)
ChecklistComplete(art) == art.checklist \in {"all_true", "some_false"}

\* (mutant) the gate is open for every task
GatePassedAlways(art) == TRUE

\* (mutant) the gate passes on any reviewer artifact
GatePassedAnyReview(art) == art.planner /\ art.verdict # "missing"

\* review_gate_status(...)["gate_passed"]
GatePassed(art) == art.planner /\ art.verdict = "pass" /\ ChecklistComplete(art)

\* record_plan
record_plan(t) ==
    /\ IF task[t] = NoTask \/ task[t].route_class # "UBUNTU_HEAVY"
       THEN /\ ret' = [op |-> "record_plan", task |-> t,
                       result |-> IF task[t] = NoTask THEN "RuntimeError"
                                  ELSE "InvalidArgument"]
            /\ UNCHANGED <<artifacts, events>>
       ELSE /\ artifacts' = [artifacts EXCEPT ![t].planner = TRUE]
            /\ events' = [events EXCEPT ![t] = AppendEvent(@, "router", "planner_artifact_recorded")]
            /\ ret' = [op |-> "record_plan", task |-> t, result |-> "ok"]
    /\ UNCHANGED <<now, task, lease, idem, approvals, policy, runs, proc>>

\* (mutant) a pass verdict is taken whatever the checklist says
ReviewRejectedLax(route_class, verdict, reason_ok, checklist) ==
    \/ route_class # "UBUNTU_HEAVY"
    \/ verdict \notin {"pass", "fail"}
    \/ verdict = "fail" /\ ~reason_ok
    \/ checklist = "not_json"

\* record_review: the ValueErrors it raises before anything is written
ReviewRejected(route_class, verdict, reason_ok, checklist) ==
    \/ route_class # "UBUNTU_HEAVY"
    \/ verdict \notin {"pass", "fail"}
    \/ verdict = "fail" /\ ~reason_ok
    \/ checklist = "not_json"
    \/ verdict = "pass" /\ StoredChecklist(checklist) # "all_true"

\* record_review
record_review(t, verdict, reason_ok, checklist) ==
    LET call == [op |-> "record_review", task |-> t, verdict |-> verdict,
                 reason_ok |-> reason_ok, checklist |-> checklist] IN
    /\ IF task[t] = NoTask
       THEN /\ ret' = call @@ [result |-> "RuntimeError"]
            /\ UNCHANGED <<artifacts, events>>
       ELSE IF ReviewRejected(task[t].route_class, verdict, reason_ok, checklist)
       THEN /\ ret' = call @@ [result |-> "InvalidArgument"]
            /\ UNCHANGED <<artifacts, events>>
       ELSE /\ artifacts' = [artifacts EXCEPT ![t].verdict = verdict,
                                              ![t].checklist = StoredChecklist(checklist)]
            /\ events' = [events EXCEPT ![t] = AppendEvent(@, "router", "reviewer_artifact_recorded")]
            /\ ret' = call @@ [result |-> "ok"]
    /\ UNCHANGED <<now, task, lease, idem, approvals, policy, runs, proc>>

-----------------------------------------------------------------------------
(* router.py: route_task, approve_task, resume_task, dispatch_task_if_ready. *)
(* A router call is a sequence of registry commands, each a process of its *)
(* own (run_registry) and a transaction of its own; proc[p] holds what the *)
(* call has read so far and where it stands.  Of the rows a step adds to  *)
(* task_events the model keeps the registry's row when the step runs a    *)
(* registry write, and the router's row (append_task_event) otherwise.     *)

\* dispatch_lease_seconds(), in ticks of the model's clock
dispatch_lease_seconds == 2

NoSnap == [status |-> "", route_class |-> "", requires_approval |-> FALSE,
           approved |-> FALSE, has_approvals |-> FALSE]
NoOut == [status |-> "", pending |-> "", event |-> ""]

\* what "get --task-id" returns, as far as the router reads it
Snapshot(t) ==
    [status |-> task[t].status,
     route_class |-> task[t].route_class,
     requires_approval |-> task[t].requires_approval,
     approved |-> \E c \in Categories : \E i \in DOMAIN approvals[t][c] :
                      approvals[t][c][i].status = "approved",
     has_approvals |-> \E c \in Categories : approvals[t][c] # <<>>]

\* the approval row that route_task requested is approved
RequestedApproved(t) ==
    \E c \in Categories : \E i \in DOMAIN approvals[t][c] :
        /\ approvals[t][c][i].requested_by = "router_v1"
        /\ approvals[t][c][i].status = "approved"

NewCall(call, t, mode, runtime, owner, pc) ==
    [pc |-> pc, call |-> call, task |-> t, mode |-> mode, runtime |-> runtime,
     owner |-> owner, snap |-> NoSnap, art |-> NoArtifacts, requested_ok |-> FALSE,
     attempt |-> 0, result |-> "", category |-> "", decision |-> "",
     defer |-> FALSE, out |-> NoOut]

Goto(p, pc) == proc' = [proc EXCEPT ![p].pc = pc]

\* the call stops and returns `out` at its next step
Leave(p, status, pending, event) ==
    proc' = [proc EXCEPT ![p].pc = "return",
                         ![p].out = [status |-> status, pending |-> pending,
                                     event |-> event]]

\* the router process ends: it returned, or run_registry raised RuntimeError
Abort(p) == proc' = [proc EXCEPT ![p] = Idle]

RouterEvent(t, detail) == events' = [events EXCEPT ![t] = AppendEvent(@, "router", detail)]

\* payload_hash({task_id, task_type, prompt, route_class, mode, runtime_mode,
\* owner, attempt_count}); type, prompt and route class are fixed per task
payload_hash(t, mode, runtime, owner, attempt_count) ==
    <<t, mode, runtime, owner, attempt_count>>

\* route_task: classify, "create"
RouteStart(p, t, task_type, prompt, mode, runtime, owner, enforcement) ==
    LET cls == classify(task_type, prompt)
        sup == mode = "supervised" /\ cls.route_class = "UBUNTU_HEAVY"
        cat0 == action_category_for_task(task_type, cls.risk_level)
        approval_required == requires_approval(cls.risk_level, task_type) \/ sup
        category == IF sup /\ cat0 = "none" THEN "supervised_heavy_execution" ELSE cat0
        reason == evaluate_execution_policy(task_type, prompt, cls.route_class, mode,
                                            enforcement)
    IN  /\ proc[p] = Idle
        /\ CreateTaskWrite(t, "pending", cls.route_class, approval_required)
        /\ proc' = [proc EXCEPT ![p] =
                [NewCall("route", t, mode, runtime, owner, "route_policy")
                 EXCEPT !.category = category, !.decision = reason]]
        /\ UNCHANGED <<now, lease, idem, approvals, artifacts, policy, runs>>

\* route_task: the classification row, then evaluate_execution_policy
RoutePolicy(p) ==
    LET t == proc[p].task
        allowed == proc[p].decision = "allowed"
    IN  /\ proc[p].pc = "route_policy"
        /\ RouterEvent(t, "classification")
        /\ policy' = [policy EXCEPT ![t] = IF allowed THEN "allow" ELSE "deny"]
        /\ ret' = [op |-> "policy", task |-> t, by |-> p, result |-> "ok",
                   reason |-> proc[p].decision]
        /\ Goto(p, IF allowed THEN "route_gate" ELSE "route_deny")
        /\ UNCHANGED <<now, task, lease, idem, approvals, artifacts, runs>>

\* policy denies: update to blocked with detail policy_block; the policy_block
\* row follows at the return
RouteDeny(p) ==
    LET t == proc[p].task IN
    /\ proc[p].pc = "route_deny"
    /\ UpdateTaskWrite(t, NormStatus(task[t].status), "blocked", FALSE, "policy_block", p)
    /\ IF ret'.result = "ok" THEN Leave(p, "blocked", "policy", "policy_block")
       ELSE Abort(p)
    /\ UNCHANGED <<TaskRest>>

\* policy allows: the policy_allow row, the review gate is read, and the
\* review_gate_pending row when it has not passed
RouteGate(p) ==
    LET t == proc[p].task
        gate_pending == task[t].route_class = "UBUNTU_HEAVY" /\ ~GatePassed(artifacts[t])
        log == AppendEvent(events[t], "router", "policy_allow")
    IN  /\ proc[p].pc = "route_gate"
        /\ events' = [events EXCEPT ![t] =
                IF gate_pending THEN AppendEvent(log, "router", "review_gate_pending")
                ELSE log]
        /\ ret' = [op |-> "route_gate", task |-> t, by |-> p, result |-> "ok",
                   pending |-> gate_pending]
        /\ proc' = [proc EXCEPT
                ![p].pc = IF task[t].requires_approval THEN "route_request"
                          ELSE IF gate_pending THEN "route_block" ELSE "route_get",
                ![p].defer = gate_pending]
        /\ UNCHANGED <<now, task, lease, idem, approvals, artifacts, policy, runs>>

\* an approval is required: "approval-request" for the task's action category
RouteRequest(p) ==
    LET t == proc[p].task IN
    /\ proc[p].pc = "route_request"
    /\ RequestApprovalWrite(t, proc[p].category, "router_v1")
    /\ IF ret'.result = "ok" THEN Goto(p, "route_block") ELSE Abort(p)
    /\ UNCHANGED <<ApprovalRest>>

\* something is pending: update to blocked with detail awaiting_..., return
RouteBlock(p) ==
    LET t == proc[p].task IN
    /\ proc[p].pc = "route_block"
    /\ UpdateTaskWrite(t, NormStatus(task[t].status), "blocked", FALSE, "awaiting", p)
    /\ IF ret'.result = "ok" THEN Leave(p, "blocked", "gates", "")
       ELSE Abort(p)
    /\ UNCHANGED <<TaskRest>>

\* (mutant) defer_dispatch is ignored: the approval is followed by the dispatch
GetForDispatchNoDefer(p) ==
    LET t == proc[p].task IN
    /\ proc[p].pc \in {"route_get", "approve_get"}
    /\ ret' = [op |-> "get", task |-> t, by |-> p, result |-> "ok"]
    /\ proc' = [proc EXCEPT ![p].pc = "disp_blockers", ![p].snap = Snapshot(t)]
    /\ UNCHANGED <<now, task, events, lease, idem, approvals, artifacts, policy, runs>>

\* the task as a "get" returns it: route_task and approve_task hand it to
\* dispatch_task_if_ready
GetForDispatch(p) ==
    LET t == proc[p].task IN
    /\ proc[p].pc \in {"route_get", "approve_get"}
    /\ ret' = [op |-> "get", task |-> t, by |-> p, result |-> "ok"]
    /\ IF proc[p].pc = "approve_get" /\ proc[p].defer
       THEN /\ proc' = [proc EXCEPT ![p].pc = "return",
                                    ![p].snap = Snapshot(t),
                                    ![p].out = [status |-> "blocked", pending |-> "deferred",
                                                event |-> "approval_decision_recorded_deferred"]]
       ELSE /\ proc' = [proc EXCEPT ![p].pc = "disp_blockers", ![p].snap = Snapshot(t)]
    /\ UNCHANGED <<now, task, events, lease, idem, approvals, artifacts, policy, runs>>

\* dispatch_blockers, on the task as it was read and the artifacts as they are
dispatch_blockers(snap, art) ==
    (IF snap.route_class = "UBUNTU_HEAVY" /\ ~GatePassed(art)
     THEN {IF art.verdict = "fail" THEN "review_failed"
           ELSE IF art.verdict = "pass" /\ ~ChecklistComplete(art)
           THEN "review_incomplete_checklist"
           ELSE "planner_reviewer_gate"}
     ELSE {})
    \cup
    (IF snap.requires_approval /\ ~snap.approved THEN {"human_approval"} ELSE {})

\* dispatch_task_if_ready: the blocker check, then context and cost events
DispBlockers(p) ==
    LET t == proc[p].task
        blockers == dispatch_blockers(proc[p].snap, artifacts[t])
    IN  /\ proc[p].pc = "disp_blockers"
        /\ RouterEvent(t, IF blockers # {} THEN "resume_blocked" ELSE "cost_estimated")
        /\ ret' = [op |-> "blockers", task |-> t, by |-> p, result |-> "ok",
                   blocked |-> blockers # {}]
        /\ proc' = [proc EXCEPT
                ![p].art = artifacts[t],
                ![p].requested_ok = RequestedApproved(t),
                ![p].pc = IF blockers # {} THEN "return" ELSE "disp_enqueue",
                ![p].out = IF blockers # {}
                           THEN [status |-> "blocked", pending |-> "blockers", event |-> ""]
                           ELSE @]
        /\ UNCHANGED <<now, task, lease, idem, approvals, artifacts, policy, runs>>

DispEnqueue(p) ==
    LET t == proc[p].task IN
    /\ proc[p].pc = "disp_enqueue"
    /\ EnqueueWrite(t, lease[t], now, proc[p].owner, dispatch_lease_seconds)
    /\ IF ret'.result = "ok" THEN Goto(p, "disp_claim") ELSE Abort(p)
    /\ UNCHANGED <<LeaseRest>>

DispClaim(p) ==
    LET t == proc[p].task IN
    /\ proc[p].pc = "disp_claim"
    /\ ClaimWrite(t, lease[t], now, proc[p].owner, dispatch_lease_seconds)
    /\ IF ret'.result # "ok" THEN Abort(p)
       ELSE IF ret'.claimed THEN Goto(p, "disp_lease_get")
       ELSE Leave(p, "running", "lease_held_by_other_owner", "lease_claim_denied")
    /\ UNCHANGED <<LeaseRest>>

\* "lease-get": the attempt_count that names the idempotency key
DispLeaseGet(p) ==
    LET t == proc[p].task IN
    /\ proc[p].pc = "disp_lease_get"
    /\ ret' = [op |-> "lease_get", task |-> t, by |-> p, result |-> "ok",
               attempt_count |-> lease[t].attempt_count]
    /\ proc' = [proc EXCEPT ![p].pc = "disp_begin",
                            ![p].attempt = lease[t].attempt_count]
    /\ UNCHANGED <<now, task, events, lease, idem, approvals, artifacts, policy, runs>>

\* the begin falls through to idempo_dispatch_miss: no conflict, and not a key
\* that exists in status processing or completed
BeginMiss(r) == ~r.conflict /\ ~(r.exists /\ r.status \in {"processing", "completed"})

DispBegin(p) ==
    LET t == proc[p].task
        key == DispatchKey(t, proc[p].attempt)
        hash == payload_hash(t, proc[p].mode, proc[p].runtime, proc[p].owner,
                             proc[p].attempt)
    IN  /\ proc[p].pc = "disp_begin"
        /\ BeginWrite(key, idem[key], hash)
        /\ IF ret'.result # "ok"
           THEN Abort(p) /\ UNCHANGED events
           ELSE IF ret'.conflict
           THEN /\ Leave(p, "blocked", "idempotency_conflict", "")
                /\ RouterEvent(t, "idempo_dispatch_conflict")
           ELSE IF BeginMiss(ret')
           THEN /\ Goto(p, "disp_queued")
                /\ RouterEvent(t, "idempo_dispatch_miss")
           ELSE IF ret'.status = "processing"
           THEN /\ Leave(p, "running", "dispatch_inflight", "")
                /\ RouterEvent(t, "idempo_dispatch_inflight")
           ELSE /\ Leave(p, IF ret'.stored = "" THEN "running" ELSE ret'.stored, "", "")
                /\ RouterEvent(t, "idempo_dispatch_hit")
        /\ UNCHANGED <<now, task, lease, approvals, artifacts, policy, runs>>

\* "update --status queued", then "update --status running"
DispStatus(p) ==
    LET t == proc[p].task
        next == IF proc[p].pc = "disp_queued" THEN "queued" ELSE "running"
    IN  /\ proc[p].pc \in {"disp_queued", "disp_running"}
        /\ UpdateTaskWrite(t, NormStatus(task[t].status), next, FALSE, "dispatch", p)
        /\ IF ret'.result # "ok" THEN Abort(p)
           ELSE Goto(p, IF next = "queued" THEN "disp_running" ELSE "disp_worker")
        /\ UNCHANGED <<TaskRest>>

\* dispatch_retry_max: max(0, int(raw))
dispatch_retry_max(raw) == IF raw < 0 THEN 0 ELSE raw

\* the markers of a transient error; an error text is represented by the set
\* of markers it contains
TransientMarkers ==
    {"timed out", "timeout", "temporarily unavailable", "connection reset",
     "broken pipe", "resource temporarily unavailable", "too many requests",
     "service unavailable"}

\* (mutant) every failure is retried
AnyErrorTransient(err) == TRUE

is_transient_dispatch_error(err) == err \cap TransientMarkers # {}

\* what one run of the child process gives run_command: an exit code and an
\* error text; a child that outlives timeout_s gives 124 and
\* "dispatch_timeout after ..."
WorkerExits ==
    {[returncode |-> 0, err |-> {}],
     [returncode |-> 0, err |-> {"timeout"}],
     [returncode |-> 1, err |-> {}],
     [returncode |-> 1, err |-> {"connection reset"}],
     [returncode |-> 2, err |-> {"too many requests", "broken pipe"}],
     [returncode |-> 124, err |-> {"timeout"}]}

\* run_command is called
RunCommandStart(p, raw_retry_max) ==
    /\ proc[p] = Idle
    /\ proc' = [proc EXCEPT ![p] =
          [pc |-> "rc_spawn", retry_max |-> dispatch_retry_max(raw_retry_max),
           attempts |-> IF dispatch_retry_max(raw_retry_max) + 1 < 1 THEN 1
                        ELSE dispatch_retry_max(raw_retry_max) + 1,
           attempt |-> 1, exits |-> <<>>]]
    /\ ret' = [op |-> "run_command_start", by |-> p]

\* one turn of the loop: subprocess.run, then the return or the sleep before
\* the next attempt
RunCommandSpawn(p) ==
    /\ proc[p].pc = "rc_spawn"
    /\ \E x \in WorkerExits :
          /\ proc' = [proc EXCEPT
                ![p].exits = Append(@, x),
                ![p].pc = IF x.returncode = 0 THEN "rc_return"
                          ELSE IF proc[p].attempt >= proc[p].attempts
                                  \/ ~is_transient_dispatch_error(x.err)
                          THEN "rc_return"
                          ELSE "rc_spawn",
                ![p].attempt = IF x.returncode # 0 /\ proc[p].attempt < proc[p].attempts
                                  /\ is_transient_dispatch_error(x.err)
                               THEN @ + 1 ELSE @]
          /\ ret' = [op |-> "worker_exit", by |-> p, returncode |-> x.returncode]

\* run_command returns the last exit; dispatch() reports succeeded (zrun.sh)
\* for exit code 0 and failed otherwise
RunCommandReturn(p) ==
    LET last == proc[p].exits[Len(proc[p].exits)] IN
    /\ proc[p].pc = "rc_return"
    /\ ret' = [op |-> "run_command", by |-> p, returncode |-> last.returncode,
               status |-> IF last.returncode # 0 THEN "failed" ELSE "succeeded",
               retry_max |-> proc[p].retry_max, exits |-> proc[p].exits]
    /\ proc' = [proc EXCEPT ![p] = Idle]

\* what dispatch() can return
DispatchResults(route_class, mode, runtime) ==
    IF mode = "readonly" THEN {"blocked"}
    ELSE IF route_class # "UBUNTU_HEAVY" THEN {"succeeded"}
    ELSE IF runtime = "single_node" THEN {"succeeded", "failed"}
    ELSE {"running", "failed"}

\* dispatch(): the worker (zrun.sh, zdispatch.sh or the PI_LIGHT stub) runs
\* unless the mode is readonly
DispWorker(p) ==
    LET t == proc[p].task IN
    /\ proc[p].pc = "disp_worker"
    /\ \E r \in DispatchResults(proc[p].snap.route_class, proc[p].mode, proc[p].runtime) :
          proc' = [proc EXCEPT ![p].pc = "disp_complete", ![p].result = r]
    /\ runs' = [runs EXCEPT ![t][proc[p].attempt] =
                    IF proc[p].mode = "readonly" THEN @ ELSE @ + 1]
    /\ ret' = [op |-> "worker", task |-> t, by |-> p, result |-> "ok",
               attempt_count |-> proc[p].attempt, invoked |-> proc[p].mode # "readonly"]
    /\ UNCHANGED <<now, task, events, lease, idem, approvals, artifacts, policy>>

\* "idempo-complete --status completed" with the dispatch result
DispComplete(p) ==
    LET t == proc[p].task IN
    /\ proc[p].pc = "disp_complete"
    /\ CompleteWrite(DispatchKey(t, proc[p].attempt), "completed", proc[p].result)
    /\ IF ret'.result = "ok" THEN Goto(p, "disp_lease_end") ELSE Abort(p)
    /\ UNCHANGED <<IdemRest>>

\* "lease-finish" when the dispatch status is terminal, "lease-heartbeat" otherwise
DispLeaseEnd(p) ==
    LET t == proc[p].task
        terminal == NormStatus(proc[p].result)
    IN  /\ proc[p].pc = "disp_lease_end"
        /\ IF terminal \in LEASE_TERMINAL
           THEN FinishWrite(t, lease[t], now, proc[p].owner, terminal,
                            IF terminal = "succeeded" THEN "" ELSE "dispatch_detail")
           ELSE HeartbeatWrite(t, lease[t], now, proc[p].owner, dispatch_lease_seconds)
        /\ IF ret'.result = "ok" THEN Goto(p, "disp_final") ELSE Abort(p)
        /\ UNCHANGED <<LeaseRest>>

\* "update --status <dispatch_status>"; the telemetry rows follow at the return
DispFinal(p) ==
    LET t == proc[p].task IN
    /\ proc[p].pc = "disp_final"
    /\ UpdateTaskWrite(t, NormStatus(task[t].status), proc[p].result, FALSE,
                       "dispatch_detail", p)
    /\ IF ret'.result = "ok" THEN Leave(p, proc[p].result, "", "telemetry")
       ELSE Abort(p)
    /\ UNCHANGED <<TaskRest>>

\* the call returns: the rows the router appends last (telemetry,
\* resume_requested, approval_decision_processed, approval_rejected), the result
RouterReturn(p) ==
    LET t == proc[p].task
        last == IF proc[p].call = "route" THEN proc[p].out.event ELSE proc[p].call
    IN  /\ proc[p].pc = "return"
        /\ events' = [events EXCEPT ![t] = IF last = "" THEN @
                                           ELSE AppendEvent(@, "router", last)]
        /\ ret' = [op |-> proc[p].call, task |-> t, by |-> p, result |-> "ok",
                   status |-> proc[p].out.status, pending |-> proc[p].out.pending]
        /\ Abort(p)
        /\ UNCHANGED <<now, task, lease, idem, approvals, artifacts, policy, runs>>

\* resume_task refused in readonly mode
ResumeRefused(p, t, mode) ==
    /\ proc[p] = Idle
    /\ mode = "readonly"
    /\ ret' = [op |-> "resume", task |-> t, by |-> p, result |-> "InvalidArgument",
               status |-> "", pending |-> ""]
    /\ UNCHANGED <<now, task, events, lease, idem, approvals, artifacts, policy, runs, proc>>

\* resume_task: "lease-reconcile" first
ResumeStart(p, t, mode, runtime, owner) ==
    /\ proc[p] = Idle
    /\ mode # "readonly"
    /\ ReconcileWrite(owner)
    /\ proc' = [proc EXCEPT ![p] = NewCall("resume", t, mode, runtime, owner, "resume_get")]
    /\ UNCHANGED <<LeaseRest>>

\* (mutant) only terminal tasks are left alone
ResumeNoopTerminal == {"succeeded", "failed", "cancelled", "expired"}

\* the statuses resume_task answers with a resume_noop event
ResumeNoop == {"succeeded", "failed", "cancelled", "expired", "running", "queued"}

\* resume_task: the task is read; terminal and in-progress tasks are left alone
ResumeGet(p) ==
    LET t == proc[p].task
        status == task[t].status
        noop == status \in ResumeNoop
    IN  /\ proc[p].pc = "resume_get"
        /\ ret' = IF noop
                  THEN [op |-> "resume", task |-> t, by |-> p, result |-> "ok",
                        status |-> status, pending |-> "noop"]
                  ELSE [op |-> "get", task |-> t, by |-> p,
                        result |-> IF task[t] = NoTask THEN "RuntimeError"
                                   ELSE IF status = "blocked" THEN "ok"
                                   ELSE "InvalidArgument"]
        /\ IF noop
           THEN Abort(p) /\ RouterEvent(t, "resume_noop")
           ELSE IF status = "blocked"
           THEN /\ proc' = [proc EXCEPT ![p].pc = "disp_blockers", ![p].snap = Snapshot(t)]
                /\ UNCHANGED events
           ELSE Abort(p) /\ UNCHANGED events
        /\ UNCHANGED <<now, task, lease, idem, approvals, artifacts, policy, runs>>

\* approve_task: refused in readonly mode, for a task that is not blocked and
\* for a task without approval rows
\* approve_task raises before "approval-decide"
ApproveRefused(t, mode) ==
    \/ mode = "readonly"
    \/ task[t] = NoTask
    \/ task[t].status # "blocked"
    \/ ~Snapshot(t).has_approvals

ApproveStart(p, t, category, decision, defer, mode, runtime, owner) ==
    LET refused == ApproveRefused(t, mode)
    IN  /\ proc[p] = Idle
        /\ ret' = [op |-> "approve", task |-> t, by |-> p,
                   result |-> IF refused THEN "InvalidArgument" ELSE "get",
                   status |-> "", pending |-> ""]
        /\ proc' = [proc EXCEPT ![p] =
                IF refused THEN Idle
                ELSE [NewCall("approve", t, mode, runtime, owner, "approve_decide")
                      EXCEPT !.category = category, !.decision = decision,
                             !.defer = defer]]
        /\ UNCHANGED <<now, task, events, lease, idem, approvals, artifacts, policy, runs>>

\* approve_task: "approval-decide"
ApproveDecide(p) ==
    LET t == proc[p].task IN
    /\ proc[p].pc = "approve_decide"
    /\ DecideApprovalWrite(t, proc[p].category, proc[p].decision, "operator")
    /\ IF ret'.result # "ok" THEN Abort(p)
       ELSE Goto(p, IF proc[p].decision = "rejected" THEN "approve_cancel"
                    ELSE "approve_get")
    /\ UNCHANGED <<ApprovalRest>>

\* (mutant) a rejected approval is reported as a cancellation that is never written
ApproveCancelUnwritten(p) ==
    /\ proc[p].pc = "approve_cancel"
    /\ ret' = [op |-> "update_task", task |-> proc[p].task, by |-> p, result |-> "ok",
               cur |-> task[proc[p].task].status, next |-> "cancelled", force |-> FALSE,
               status |-> task[proc[p].task].status]
    /\ Leave(p, "cancelled", "", "approval_rejected")
    /\ UNCHANGED <<task, events, TaskRest>>

\* approve_task: a rejected approval cancels the task
ApproveCancel(p) ==
    LET t == proc[p].task IN
    /\ proc[p].pc = "approve_cancel"
    /\ UpdateTaskWrite(t, NormStatus(task[t].status), "cancelled", FALSE,
                       "approval_rejected", p)
    /\ IF ret'.result = "ok" THEN Leave(p, "cancelled", "", "approval_rejected")
       ELSE Abort(p)
    /\ UNCHANGED <<TaskRest>>

\* one step of a route_task call that is under way, up to its hand-over to
\* dispatch_task_if_ready
RouteSteps(p) ==
    \/ RoutePolicy(p) /\ UNCHANGED <<script, bot>>
    \/ RouteDeny(p) /\ UNCHANGED <<script, bot>>
    \/ RouteGate(p) /\ UNCHANGED <<script, bot>>
    \/ RouteRequest(p) /\ UNCHANGED <<script, bot>>
    \/ RouteBlock(p) /\ UNCHANGED <<script, bot>>

\* one step of an approve_task or resume_task call that is under way, or of
\* dispatch_task_if_ready on behalf of any of the three
CallSteps(p) ==
    \/ GetForDispatch(p) /\ UNCHANGED <<script, bot>>
    \/ ResumeGet(p) /\ UNCHANGED <<script, bot>>
    \/ ApproveDecide(p) /\ UNCHANGED <<script, bot>>
    \/ ApproveCancel(p) /\ UNCHANGED <<script, bot>>
    \/ DispBlockers(p) /\ UNCHANGED <<script, bot>>
    \/ DispEnqueue(p) /\ UNCHANGED <<script, bot>>
    \/ DispClaim(p) /\ UNCHANGED <<script, bot>>
    \/ DispLeaseGet(p) /\ UNCHANGED <<script, bot>>
    \/ DispBegin(p) /\ UNCHANGED <<script, bot>>
    \/ DispStatus(p) /\ UNCHANGED <<script, bot>>
    \/ DispWorker(p) /\ UNCHANGED <<script, bot>>
    \/ DispComplete(p) /\ UNCHANGED <<script, bot>>
    \/ DispLeaseEnd(p) /\ UNCHANGED <<script, bot>>
    \/ DispFinal(p) /\ UNCHANGED <<script, bot>>
    \/ RouterReturn(p) /\ UNCHANGED <<script, bot>>

RouterStep(p) == RouteSteps(p) \/ CallSteps(p)

-----------------------------------------------------------------------------
(* bot_longpoll.py: the telegram ingress.  One process (lock file) runs      *)
(* poll_loop; process_update handles one update at a time.  The clock of the *)
(* rate limiter counts in steps of five seconds.                             *)

UpdateIds == {1, 2}
ChatIds == {"operator", "stranger"}

\* what an update carries: no message at all, a message that is not a
\* command, or a command
UpdateKinds == {"no_message", "text", "command"}

\* TELEGRAM_ALLOWED_CHAT_IDS
allowed_ids == {"operator"}

\* TELEGRAM_RATE_LIMIT_PER_MINUTE, TELEGRAM_RATE_LIMIT_BURST
rate_limit_per_minute == 3
rate_limit_burst == 2

\* the sixty seconds and the five seconds of allow_message, in clock steps
MinuteWindow == 12
BurstWindow == 1

\* how handle_command ends: it returns, it raises, it raises command_timeout
HandlerOutcomes == {"ok", "error", "command_timeout"}

NoBot == [inbox |-> <<>>, audit |-> <<>>, replies |-> <<>>, executed |-> <<>>,
          delivered |-> <<>>, buckets |-> <<>>, offset |-> 0, poll_errors |-> 0,
          pending |-> 0, lock |-> ""]

\* (mutant) the cap is compared with > where the code has >=
allow_message_late(entries, now_ts, per_minute, burst_cap) ==
    LET kept == SelectSeq(entries, LAMBDA ts : ts >= now_ts - MinuteWindow)
        burst == SelectSeq(kept, LAMBDA ts : ts >= now_ts - BurstWindow)
    IN  IF per_minute <= 0
        THEN [allowed |-> TRUE, entries |-> entries]
        ELSE IF Len(kept) > per_minute
        THEN [allowed |-> FALSE, entries |-> kept]
        ELSE IF burst_cap > 0 /\ Len(burst) >= burst_cap
        THEN [allowed |-> FALSE, entries |-> kept]
        ELSE [allowed |-> TRUE, entries |-> Append(kept, now_ts)]

\* allow_message under the caps per_minute and burst_cap: the entries kept for
\* the chat, and whether the message is allowed
allow_message_with(entries, now_ts, per_minute, burst_cap) ==
    LET kept == SelectSeq(entries, LAMBDA ts : ts >= now_ts - MinuteWindow)
        burst == SelectSeq(kept, LAMBDA ts : ts >= now_ts - BurstWindow)
    IN  IF per_minute <= 0
        THEN [allowed |-> TRUE, entries |-> entries]
        ELSE IF Len(kept) >= per_minute
        THEN [allowed |-> FALSE, entries |-> kept]
        ELSE IF burst_cap > 0 /\ Len(burst) >= burst_cap
        THEN [allowed |-> FALSE, entries |-> kept]
        ELSE [allowed |-> TRUE, entries |-> Append(kept, now_ts)]

\* allow_message under the configured caps
allow_message(entries, now_ts) ==
    allow_message_with(entries, now_ts, rate_limit_per_minute, rate_limit_burst)

\* allow_message(rate_buckets, chat_id, config, now) on the buckets of the
\* ingress; script holds the caps of the configuration
RateMessage(chat) ==
    LET r == allow_message_with(bot.buckets[chat], now, script.per_minute, script.burst) IN
    /\ bot' = [bot EXCEPT !.buckets[chat] = r.entries]
    /\ ret' = [op |-> "allow_message", chat |-> chat, allowed |-> r.allowed]

\* append_audit for update u
Audited(b, u, status) == [b EXCEPT !.audit[u] = Append(@, status)]

\* send_message: the reply arrives (sent) or telegram_api raises
Replied(b, u, sent) == IF sent THEN [b EXCEPT !.replies[u] = @ + 1] ELSE b

\* process_update(u): the ingress state it leaves and whether it raised.
\* handler is the way handle_command ends; sent1 and sent2 say whether the
\* first and the second send_message of the call get through.
process_update(b0, u, handler, sent1, sent2) ==
    LET upd == b0.inbox[u]
        b == [b0 EXCEPT !.delivered[u] = @ + 1]
        rate == allow_message(b.buckets[upd.chat], now)
        limited == [b EXCEPT !.buckets[upd.chat] = rate.entries]
        ran == [limited EXCEPT !.executed[u] = @ + 1]
    IN  IF upd.kind = "no_message"
        THEN [bot |-> b, raised |-> FALSE]
        ELSE IF ~rate.allowed
        THEN [bot |-> Audited(limited, u, "rate_limited"), raised |-> FALSE]
        ELSE IF allowed_ids # {} /\ upd.chat \notin allowed_ids
        THEN [bot |-> Replied(Audited(limited, u, "unauthorized"), u, sent1),
              raised |-> ~sent1]
        ELSE IF upd.kind = "text"
        THEN [bot |-> Audited(limited, u, "ignored_non_command"), raised |-> FALSE]
        ELSE IF handler = "ok"
        THEN IF sent1
             THEN [bot |-> Replied(Audited(ran, u, "ok"), u, TRUE), raised |-> FALSE]
             ELSE [bot |-> Replied(Audited(Audited(ran, u, "ok"), u, "error"), u, sent2),
                   raised |-> ~sent2]
        ELSE [bot |-> Replied(Audited(ran, u, handler), u, sent1), raised |-> ~sent1]

\* the update poll_loop hands to process_update next: the first one at or
\* after the persisted offset
NextUpdate(b) ==
    IF \E u \in UpdateIds : u >= b.offset
    THEN CHOOSE u \in UpdateIds : u >= b.offset /\ \A v \in UpdateIds : v >= b.offset => u <= v
    ELSE 0

\* poll_loop: process_update on the next update; when it raises, the
\* poll_error record is written and the offset stays
BotProcess(handler, sent1, sent2) ==
    LET u == NextUpdate(bot)
        r == process_update(bot, u, handler, sent1, sent2)
    IN  /\ bot.pending = 0
        /\ u # 0
        /\ bot.delivered[u] < MaxDeliveries
        /\ bot' = IF r.raised
                  THEN [r.bot EXCEPT !.poll_errors = @ + 1]
                  ELSE [r.bot EXCEPT !.pending = u]
        /\ ret' = [op |-> "process_update", update |-> u, raised |-> r.raised]

\* (mutant) the offset is written one update too far
OffsetAfterNext(update_id) == update_id + 2

\* poll_loop: offset = int(update.get("update_id", offset)) + 1
OffsetAfter(update_id) == update_id + 1

\* poll_loop: write_offset(update_id + 1)
BotWriteOffset ==
    /\ bot.pending # 0
    /\ bot' = [bot EXCEPT !.offset = OffsetAfter(bot.pending), !.pending = 0]
    /\ ret' = [op |-> "write_offset", update |-> bot.pending, raised |-> FALSE]

\* the process is killed after process_update and before write_offset, and
\* started again: the rate buckets are lost, the files are kept
BotRestart ==
    /\ bot.pending # 0
    /\ bot.delivered[bot.pending] < MaxDeliveries
    /\ bot' = [bot EXCEPT !.pending = 0, !.buckets = [c \in ChatIds |-> <<>>]]
    /\ ret' = [op |-> "restart", update |-> bot.pending, raised |-> FALSE]

\* (mutant) the lock file is opened without O_EXCL
lock_exists_never(b) == FALSE

\* os.open(lock_path, O_CREAT | O_EXCL | O_WRONLY) raises FileExistsError
lock_exists(b) == b.lock # ""

\* main: arguments parsed, configuration loaded
IngressMain(p) ==
    /\ proc[p] = Idle
    /\ proc' = [proc EXCEPT ![p] = [pc |-> "acquire_lock", fetched |-> 0]]
    /\ ret' = [op |-> "main", by |-> p, result |-> "load_config"]
    /\ UNCHANGED bot

\* acquire_lock: the file is created with the pid in it and poll_loop starts,
\* or main prints lock_exists and returns 1
IngressAcquire(p) ==
    /\ proc[p].pc = "acquire_lock"
    /\ IF lock_exists(bot)
       THEN /\ proc' = [proc EXCEPT ![p] = Idle]
            /\ ret' = [op |-> "main", by |-> p, result |-> "lock_exists"]
            /\ UNCHANGED bot
       ELSE /\ proc' = [proc EXCEPT ![p].pc = "poll_loop"]
            /\ bot' = [bot EXCEPT !.lock = p]
            /\ ret' = [op |-> "main", by |-> p, result |-> "startup"]

\* poll_loop: one fetch cycle; getUpdates(offset) returns nothing, or the
\* update at the offset, which is processed and the offset file written
IngressPoll(p) ==
    /\ proc[p].pc = "poll_loop"
    /\ proc[p].fetched < MaxPolls
    /\ proc' = [proc EXCEPT ![p].fetched = @ + 1]
    /\ \E got \in BOOLEAN :
          /\ got => bot.offset < MaxPolls
          /\ bot' = [bot EXCEPT !.offset = IF got THEN @ + 1 ELSE @]
          /\ ret' = [op |-> "getUpdates", by |-> p,
                     result |-> IF got THEN "update" ELSE "empty"]

\* the process ends and its atexit handler unlinks the lock file
IngressExit(p) ==
    /\ proc[p].pc = "poll_loop"
    /\ proc' = [proc EXCEPT ![p] = Idle]
    /\ bot' = [bot EXCEPT !.lock = ""]
    /\ ret' = [op |-> "exit", by |-> p, result |-> "cleanup"]

\* the process is killed: no atexit handler runs, the lock file stays
IngressKilled(p) ==
    /\ proc[p].pc = "poll_loop"
    /\ proc' = [proc EXCEPT ![p] = Idle]
    /\ ret' = [op |-> "exit", by |-> p, result |-> "killed"]
    /\ UNCHANGED bot

\* the operator removes the lock file a killed process left
StaleLockRemoved ==
    /\ bot.lock # ""
    /\ proc[bot.lock].pc # "poll_loop"
    /\ bot' = [bot EXCEPT !.lock = ""]
    /\ ret' = [op |-> "unlink", by |-> "operator", result |-> "ok"]
    /\ UNCHANGED proc

\* the larger and the smaller of two numbers
Max2(a, b) == IF a >= b THEN a ELSE b
Min2(a, b) == IF a <= b THEN a ELSE b

\* times of the poll loop are in tenths of a second: the floor 0.2 of the
\* backoff and the floor 1.0 of its cap
BackoffFloor == 2
CapFloor == 10

\* poll_loop: backoff_seconds = max(config.poll_interval_seconds, 0.2)
FirstBackoff(cfg) == Max2(cfg.poll_interval, BackoffFloor)

\* poll_loop: min(max(poll_interval, 0.2, backoff * 2), max(max_backoff, 1.0))
NextBackoff(cfg, backoff) ==
    Min2(Max2(Max2(cfg.poll_interval, BackoffFloor), backoff * 2),
         Max2(cfg.max_backoff, CapFloor))

\* poll_loop is entered: error_count = 0 and the first backoff
PollLoopStart(p) ==
    /\ proc[p] = Idle
    /\ proc' = [proc EXCEPT ![p] = [pc |-> "poll_loop", cycles |-> 0, error_count |-> 0,
                                    backoff_seconds |-> FirstBackoff(script)]]
    /\ ret' = [op |-> "poll_loop", status |-> "startup", error_count |-> 0, slept |-> 0]

\* poll_loop: getUpdates raises; the poll_error line is written, the loop
\* sleeps backoff_seconds and computes the next backoff
PollCycleFails(p) ==
    /\ proc[p].pc = "poll_loop"
    /\ proc[p].cycles < MaxCycles
    /\ proc' = [proc EXCEPT ![p].cycles = @ + 1,
                            ![p].error_count = @ + 1,
                            ![p].backoff_seconds = NextBackoff(script, @)]
    /\ ret' = [op |-> "poll_loop", status |-> "poll_error",
               error_count |-> proc[p].error_count + 1,
               slept |-> proc[p].backoff_seconds]

\* poll_loop: getUpdates returns (no update in it); error_count and the
\* backoff are reset, no audit line is written, the loop sleeps
\* poll_interval_seconds
PollCycleSucceeds(p) ==
    /\ proc[p].pc = "poll_loop"
    /\ proc[p].cycles < MaxCycles
    /\ proc' = [proc EXCEPT ![p].cycles = @ + 1,
                            ![p].error_count = 0,
                            ![p].backoff_seconds = FirstBackoff(script)]
    /\ ret' = [op |-> "poll_loop", status |-> "none", error_count |-> 0,
               slept |-> script.poll_interval]

\* estimate_tokens of a text of `chars` characters
estimate_tokens(chars) == Max2(1, (chars + 3) \div 4)

\* compact_snippet(text, limit) of a text without double blanks: its length
SnippetLen(chars, limit) == IF chars <= limit THEN chars ELSE limit

RECURSIVE SumLen(_)
SumLen(lines) == IF lines = <<>> THEN 0 ELSE Head(lines).len + SumLen(Tail(lines))

\* len("\n".join(lines))
JoinLen(lines) == IF lines = <<>> THEN 0 ELSE SumLen(lines) + Len(lines) - 1

\* A context text is a sequence of lines.  An essential line is one word of
\* len characters, a retrieval line is "- " and one word (len characters in
\* all), a blank line is len blanks.
LineKinds == {"essential", "retrieval", "blank"}

\* int(input_tokens * target_ratio()) for ZHC_CONTEXT_TARGET_RATIO = 0.7
TargetTokens(input_tokens) == (input_tokens * 7) \div 10

\* effective_budget = min(budget, max(120, int(input_tokens * target_ratio())))
EffectiveBudget(budget, input_tokens) ==
    Min2(budget, Max2(120, TargetTokens(input_tokens)))

\* the lines the compaction sorts into essential_lines and retrieval_lines
EssentialLines(text) ==
    LET pick == SelectSeq(text, LAMBDA l : l.kind = "essential")
    IN  [i \in 1..Len(pick) |-> [kind |-> "essential", len |-> SnippetLen(pick[i].len, 200)]]

RetrievalLines(text) ==
    LET pick == SelectSeq(text, LAMBDA l : l.kind = "retrieval")
    IN  [i \in 1..Len(pick) |-> [kind |-> "retrieval", len |-> SnippetLen(pick[i].len, 160)]]

\* "for line in essential_lines: selected.append(line); if ... >= effective_budget: break"
RECURSIVE TakeEssential(_, _, _)
TakeEssential(lines, selected, eff) ==
    IF lines = <<>> THEN selected
    ELSE LET more == Append(selected, Head(lines)) IN
         IF estimate_tokens(JoinLen(more)) >= eff THEN more
         ELSE TakeEssential(Tail(lines), more, eff)

\* "for line in retrieval_lines: if next_tokens > effective_budget: break"
RECURSIVE TakeRetrieval(_, _, _)
TakeRetrieval(lines, selected, eff) ==
    IF lines = <<>> THEN selected
    ELSE LET more == Append(selected, Head(lines)) IN
         IF estimate_tokens(JoinLen(more)) > eff THEN selected
         ELSE TakeRetrieval(Tail(lines), more, eff)

\* the line "retrieval:"
RetrievalMark == [kind |-> "mark", len |-> 10]

\* the lines selected, essential ones first
Selected(text, eff) ==
    LET first == TakeEssential(EssentialLines(text), <<>>, eff) IN
    IF RetrievalLines(text) # <<>> /\ estimate_tokens(JoinLen(first)) < eff
    THEN TakeRetrieval(RetrievalLines(text), Append(first, RetrievalMark), eff)
    ELSE first

\* the character counts at which a cut of the joined lines ends in a newline
\* or in the blank of "- "
CutsAtBlank(lines) ==
    { JoinLen(SubSeq(lines, 1, i)) + 1 : i \in 1..(Len(lines) - 1) }
        \cup { JoinLen(SubSeq(lines, 1, i - 1)) + (IF i > 1 THEN 1 ELSE 0) + 2 :
                 i \in {j \in 1..Len(lines) : lines[j].kind = "retrieval"} }

\* "max(80, int((budget * 4) * 0.9))"
TrimLen(budget) == Max2(80, (budget * 36) \div 10)

\* compact_text_to_token_budget(text, budget): the characters and the token
\* estimates of what it returns
compact_text_to_token_budget(text, budget) ==
    LET input_tokens == estimate_tokens(JoinLen(text))
        words == SelectSeq(text, LAMBDA l : l.kind # "blank")
        eff == EffectiveBudget(budget, input_tokens)
        selected == Selected(text, eff)
        chars == IF selected # <<>> THEN JoinLen(selected)
                 ELSE SnippetLen(JoinLen(words), 400)
        cut == Min2(chars, TrimLen(budget))
        lines == IF selected # <<>> THEN selected ELSE words
        trimmed == IF cut \in CutsAtBlank(lines) THEN cut - 1 ELSE cut
        out == IF estimate_tokens(chars) > budget THEN trimmed ELSE chars
    IN  IF words = <<>>
        THEN [chars |-> JoinLen(text), input_tokens |-> input_tokens,
              out_tokens |-> input_tokens]
        ELSE [chars |-> out, input_tokens |-> input_tokens,
              out_tokens |-> estimate_tokens(out)]

\* the compaction is applied to the text and the budget that script holds
CompactText ==
    /\ ret = NoRet
    /\ ret' = [op |-> "compact"] @@ compact_text_to_token_budget(script.text, script.budget)

\* tasks.metadata_json: a JSON object, here a function from some of the keys
\* to values
MetaKeys == {"trace_id", "dispatch_status"}
MetaValues == {"v1", "v2"}
Metadatas == UNION { [ks -> MetaValues] : ks \in SUBSET MetaKeys }

\* current.update(metadata_patch)
MergedMetadata(current, patch) ==
    [k \in DOMAIN current \cup DOMAIN patch |->
        IF k \in DOMAIN patch THEN patch[k] ELSE current[k]]

\* merge_task_metadata: "SELECT metadata_json FROM tasks WHERE task_id = ?",
\* which opens no transaction
MergeRead(p, t, patch) ==
    /\ proc[p] = Idle
    /\ IF task[t] = NoTask
       THEN /\ proc' = proc
            /\ ret' = [op |-> "merge_metadata", by |-> p, task |-> t, result |-> "NotFound"]
       ELSE /\ proc' = [proc EXCEPT ![p] = [pc |-> "merge_write", task |-> t, patch |-> patch,
                                            current |-> task[t].metadata]]
            /\ ret' = [op |-> "read", by |-> p]
    /\ UNCHANGED <<task, events>>

\* merge_task_metadata: the UPDATE of metadata_json with what was read and
\* patched, the metadata_updated event and the commit
MergeWrite(p) ==
    LET t == proc[p].task IN
    /\ proc[p].pc = "merge_write"
    /\ task' = [task EXCEPT ![t].metadata = MergedMetadata(proc[p].current, proc[p].patch)]
    /\ events' = [events EXCEPT ![t] = AppendEvent(@, "metadata_updated", "")]
    /\ proc' = [proc EXCEPT ![p] = Idle]
    /\ ret' = [op |-> "merge_metadata", by |-> p, task |-> t, result |-> "ok",
               patch |-> proc[p].patch]

\* route_task: the keys of the metadata it hands to create_task
RouteMetadataKeys ==
    {"source", "approval_required", "autonomy_mode", "runtime_mode",
     "model_provider_hint", "model_name_hint", "queued_at"}

\* the trace ids of the ingress, and the event detail that would carry one:
\* a text with "trace_id": "<id>" in it
TraceIds == {"tg-1", "tg-2"}
TraceDetail == [x \in TraceIds |-> IF x = "tg-1" THEN "trace tg-1" ELSE "trace tg-2"]

\* trace_events: "WHERE detail LIKE %"trace_id": "<id>"%", oldest first
trace_events(trace_id) ==
    [t \in TaskIds |-> SelectSeq(events[t], LAMBDA e : e.detail = TraceDetail[trace_id])]

\* route_task(task_type, prompt, trace_id): "def route_task(task_type, prompt)"
\* takes two arguments, the call raises TypeError before its first statement
RouteTraced(p, trace_id) ==
    /\ proc[p] = Idle
    /\ ret' = [op |-> "route_task", by |-> p, trace_id |-> trace_id, result |-> "TypeError",
               task |-> ""]
    /\ UNCHANGED <<now, task, events, lease, idem, approvals, RouterRest, proc>>

\* the trace-events command of the registry
TraceQuery(p, trace_id) ==
    /\ proc[p] = Idle
    /\ ret' = [op |-> "trace_events", by |-> p, trace_id |-> trace_id,
               events |-> trace_events(trace_id)]
    /\ UNCHANGED <<now, task, events, lease, idem, approvals, RouterRest, proc>>

\* time passes
Tick ==
    /\ now < MaxTime
    /\ now' = now + 1
    /\ ret' = [op |-> "tick"]
    /\ UNCHANGED <<task, events, lease, idem, approvals, RouterRest, proc>>

\* test_expired_running_lease_reclaims_with_attempt_increment, as a recogniser of
\* the calls made since the task was created: enqueue(owner-a), claim(owner-a),
\* sleep past the expiry, reconcile(owner-b), claim(owner-b).  `script` names
\* the last of its calls made so far, or is "off" once any other call was made.
ScriptNext ==
    LET r == ret'
        due == lease["t1"].lease_status = "running" /\ LeaseExpired(lease["t1"], now)
    IN  IF r.op = "tick" THEN script
        ELSE IF script = "start" /\ r.op = "enqueue" /\ r.task = "t1" /\ r.owner = "owner-a"
        THEN "enqueued"
        ELSE IF script = "enqueued" /\ r.op = "claim" /\ r.task = "t1" /\ r.owner = "owner-a"
        THEN "claimed"
        ELSE IF script = "claimed" /\ r.op = "reconcile" /\ r.owner = "owner-b" /\ due
        THEN "reconciled"
        ELSE IF script = "reconciled" /\ r.op = "claim" /\ r.task = "t1" /\ r.owner = "owner-b"
        THEN "reclaimed"
        ELSE "off"

Scripted == script' = ScriptNext /\ UNCHANGED bot

-----------------------------------------------------------------------------
(* Specifications *)

\* no idempotency key, no approval, no artifact, no worker run
NoRouterState ==
    /\ idem = [k \in IdemKeys |-> NoIdem]
    /\ approvals = [t \in TaskIds |-> [c \in Categories |-> <<>>]]
    /\ artifacts = [t \in TaskIds |-> NoArtifacts]
    /\ policy = [t \in TaskIds |-> "none"]
    /\ runs = [t \in TaskIds |-> [n \in 0..(MaxAttempts + 1) |-> 0]]

EmptyDb ==
    /\ now = 0
    /\ task = [t \in TaskIds |-> NoTask]
    /\ events = [t \in TaskIds |-> <<>>]
    /\ lease = [t \in TaskIds |-> NoLease]
    /\ NoRouterState
    /\ proc = [p \in ProcIds |-> Idle]
    /\ ret = NoRet
    /\ script = "start"
    /\ bot = NoBot

Room(t) == Len(events[t]) < MaxEvents

StatusWords == VALID_TASK_STATUSES \cup {"bogus"}
Details == {"", "note"}

\* the tasks table under one caller
TaskCreate ==
    \E s \in {"pending", "requested"} : create_task("t1", s, "PI_LIGHT", FALSE)

TaskUpdate ==
    \E t \in {"t1"}, next \in StatusWords, force \in BOOLEAN, d \in Details :
        Room(t) /\ update_task(t, next, force, d)

TaskNext == TaskCreate \/ TaskUpdate

SpecTask == EmptyDb /\ [][TaskNext]_vars

\* create_task and update_task of one caller, statement by statement, with
\* failures before the commit
TxStart ==
    \/ \E st \in {"pending", "requested"} :
          /\ TxCreate("p1", "t1", st, "PI_LIGHT", FALSE)
          /\ UNCHANGED <<TaskRest, script, bot>>
    \/ \E next \in VALID_TASK_STATUSES, force \in BOOLEAN, d \in Details :
          /\ Room("t1")
          /\ TxUpdate("p1", "t1", next, force, d)
          /\ UNCHANGED <<TaskRest, script, bot>>

TxEvent == TxAppendEvent("p1") /\ UNCHANGED <<TaskRest, script, bot>>

TxCommitted == TxCommit("p1") /\ UNCHANGED <<TaskRest, script, bot>>

TxFailed == TxFail("p1") /\ UNCHANGED <<TaskRest, script, bot>>

TaskTxNext == TxStart \/ TxEvent \/ TxCommitted \/ TxFailed

SpecTaskTx == EmptyDb /\ [][TaskTxNext]_vars

\* the tasks table under two concurrent callers of update_task
ConcWords == {"running", "blocked", "succeeded", "cancelled"}

ConcCreate ==
    create_task("t1", "pending", "PI_LIGHT", FALSE)

ConcRead ==
    \E p \in ProcIds, t \in {"t1"}, next \in ConcWords, force \in BOOLEAN :
        Room(t) /\ UpdRead(p, t, next, force, "")

ConcWrite == \E p \in ProcIds : UpdWrite(p)

TaskConcNext == ConcCreate \/ ConcRead \/ ConcWrite

SpecTaskConc == EmptyDb /\ [][TaskConcNext]_vars

\* the lease table under one caller at a time.  The task exists and has a
\* history of at least MaxEvents events (that of a task the router blocked).
RoutedLog ==
    <<Event("created", "UBUNTU_HEAVY"), Event("router", "classification"),
      Event("router", "policy_allow"), Event("router", "review_gate_pending"),
      Event("approval_requested", "supervised_heavy_execution"),
      Event("router", "approval_required"),
      Event("status_updated", "awaiting_planner_reviewer_gate_and_human_approval")>>

FirstEvents(log) == SubSeq(log, 1, IF Len(log) < MaxEvents THEN Len(log) ELSE MaxEvents)

BlockedTask == [status |-> "blocked", route_class |-> "UBUNTU_HEAVY",
                requires_approval |-> TRUE]

BlockedTables ==
    /\ now = 0
    /\ task = [t \in TaskIds |-> IF t = "t1" THEN BlockedTask ELSE NoTask]
    /\ events = [t \in TaskIds |-> IF t = "t1" THEN FirstEvents(RoutedLog) ELSE <<>>]
    /\ lease = [t \in TaskIds |-> NoLease]
    /\ NoRouterState
    /\ ret = NoRet
    /\ script = "start"
    /\ bot = NoBot

BlockedDb == BlockedTables /\ proc = [p \in ProcIds |-> Idle]

LeaseSeconds == {0, 2}

MayClaim(t) ==
    \/ lease[t].attempt_count < MaxAttempts
    \/ lease[t].lease_status = "running" /\ ~LeaseExpired(lease[t], now)

LeaseEnqueue ==
    \E t \in TaskIds, o \in OwnerIds, ls \in LeaseSeconds :
        enqueue_dispatch_lease(t, o, ls) /\ Scripted

LeaseClaim ==
    \E t \in TaskIds, o \in OwnerIds, ls \in LeaseSeconds :
        MayClaim(t) /\ claim_dispatch_lease(t, o, ls) /\ Scripted

LeaseHeartbeat ==
    \E t \in TaskIds, o \in OwnerIds, ls \in LeaseSeconds :
        heartbeat_dispatch_lease(t, o, ls) /\ Scripted

LeaseFinish ==
    \E t \in TaskIds, o \in OwnerIds, r \in {"succeeded", "failed", "canceled", "running"},
       e \in {"", "worker_failed"} :
        finish_dispatch_lease(t, o, r, e) /\ Scripted

LeaseReconcile == \E o \in OwnerIds : reconcile_dispatch_leases(o) /\ Scripted

LeaseTick == Tick /\ Scripted

LeaseNext ==
    LeaseEnqueue \/ LeaseClaim \/ LeaseHeartbeat \/ LeaseFinish \/ LeaseReconcile
        \/ LeaseTick

SpecLease == BlockedDb /\ [][LeaseNext]_vars

\* the lease table under two dispatchers that claim concurrently: p1 runs as
\* owner-a, p2 as owner-b
OwnerOf(p) == IF p = "p1" THEN "owner-a" ELSE "owner-b"

LeaseConcDb == BlockedTables /\ proc = [p \in ProcIds |-> [pc |-> "idle", held_until |-> 0]]

LeaseConcEnqueue ==
    \E p \in ProcIds, ls \in LeaseSeconds :
        /\ proc[p].pc = "idle"
        /\ enqueue_dispatch_lease("t1", OwnerOf(p), ls)
        /\ UNCHANGED <<script, bot>>

LeaseConcRead ==
    \E p \in ProcIds, ls \in LeaseSeconds :
        MayClaim("t1") /\ ClaimRead(p, "t1", OwnerOf(p), ls)

LeaseConcWrite == \E p \in ProcIds : ClaimWriteStep(p)

LeaseConcTick == Tick /\ UNCHANGED <<script, bot>>

LeaseConcNext == LeaseConcEnqueue \/ LeaseConcRead \/ LeaseConcWrite \/ LeaseConcTick

SpecLeaseConc == LeaseConcDb /\ [][LeaseConcNext]_vars

\* the idempotency_keys table under begin and complete calls, one at a time;
\* script[k] remembers whether the last complete that succeeded on k stored
\* status completed
Hashes == {<<"hash-a">>, <<"hash-b">>}
Results == {"ok-1", "ok-2"}
IdemTestKeys == {TgKey, DispatchKey("t1", 1)}

IdemScriptNext ==
    LET r == ret' IN
    [k \in IdemTestKeys |->
        IF r.op = "complete" /\ r.key = k /\ r.result = "ok"
        THEN (IF r.status = "completed" THEN "sealed" ELSE "open")
        ELSE script[k]]

IdemDb ==
    /\ now = 0
    /\ task = [t \in TaskIds |-> NoTask]
    /\ events = [t \in TaskIds |-> <<>>]
    /\ lease = [t \in TaskIds |-> NoLease]
    /\ NoRouterState
    /\ proc = [p \in ProcIds |-> Idle]
    /\ ret = NoRet
    /\ script = [k \in IdemTestKeys |-> "open"]
    /\ bot = NoBot

IdemBegin ==
    \E k \in IdemTestKeys, h \in Hashes :
        begin_idempotency(k, h) /\ script' = IdemScriptNext /\ UNCHANGED bot

IdemComplete ==
    \E k \in IdemTestKeys, st \in IDEM_STATUSES \cup {"bogus"}, r \in Results :
        complete_idempotency(k, st, r) /\ script' = IdemScriptNext /\ UNCHANGED bot

IdemNext == IdemBegin \/ IdemComplete

SpecIdem == IdemDb /\ [][IdemNext]_vars

\* the router's commands route, plan, review, approve and resume, one at a time
\* (process p1), on one task
ReviewVerdicts == {"pass", "fail", "maybe"}

\* the requests routed here: a light task, one of unknown type, a light task
\* with a high-risk prompt, a heavy task, a heavy task with a blocked keyword
RoutedRequests ==
    {rq \in TaskTypes \X Prompts :
        rq \in {<<"ping", "plain">>, <<"mystery", "plain">>, <<"ping", "risky">>,
                <<"code_refactor", "plain">>, <<"code_refactor", "forbidden">>}}

RtRoute ==
    \E rq \in RoutedRequests, m \in VALID_AUTONOMY_MODES, e \in Enforcements :
        /\ RouteStart("p1", "t1", rq[1], rq[2], m, "single_node", "owner-a", e)
        /\ UNCHANGED <<script, bot>>

RtResume ==
    \E m \in VALID_AUTONOMY_MODES, rt \in VALID_RUNTIME_MODES :
        /\ \/ ResumeRefused("p1", "t1", m)
           \/ ResumeStart("p1", "t1", m, rt, "owner-a")
        /\ UNCHANGED <<script, bot>>

RtApprove ==
    \E c \in Categories, d \in {"approved", "rejected"}, defer \in BOOLEAN,
       m \in VALID_AUTONOMY_MODES :
        /\ ApproveStart("p1", "t1", c, d, defer, m, "single_node", "owner-a")
        /\ UNCHANGED <<script, bot>>

RtPlan == proc["p1"] = Idle /\ record_plan("t1") /\ UNCHANGED <<script, bot>>

RtReview ==
    \E v \in ReviewVerdicts, reason_ok \in BOOLEAN, cl \in Checklists :
        proc["p1"] = Idle /\ record_review("t1", v, reason_ok, cl) /\ UNCHANGED <<script, bot>>

RtStep == RouterStep("p1")

RtTick == Tick /\ UNCHANGED <<script, bot>>

RouterNext == RtRoute \/ RtResume \/ RtApprove \/ RtPlan \/ RtReview \/ RtStep \/ RtTick

SpecRouter == EmptyDb /\ [][RouterNext]_vars

\* the router as above, with route calls that hand over a trace id and with
\* trace-events queries
TrRouteTraced == \E x \in TraceIds : RouteTraced("p1", x) /\ UNCHANGED <<script, bot>>

TrQuery == \E x \in TraceIds : TraceQuery("p1", x) /\ UNCHANGED <<script, bot>>

TraceNext == RouterNext \/ TrRouteTraced \/ TrQuery

SpecTrace == EmptyDb /\ [][TraceNext]_vars

\* approve and resume calls of two router processes on one task, step by step.
\* The task is one that route_task left blocked: a light task with a high-risk
\* prompt, routed in supervised mode, its manual_review approval requested.
AwaitingLog ==
    <<Event("created", "PI_LIGHT"), Event("router", "classification"),
      Event("router", "policy_allow"), Event("approval_requested", "manual_review"),
      Event("status_updated", "awaiting")>>

AwaitingTask == [status |-> "blocked", route_class |-> "PI_LIGHT",
                 requires_approval |-> TRUE]

AwaitingDb ==
    /\ now = 0
    /\ task = [t \in TaskIds |-> IF t = "t1" THEN AwaitingTask ELSE NoTask]
    /\ events = [t \in TaskIds |-> IF t = "t1" THEN FirstEvents(AwaitingLog) ELSE <<>>]
    /\ lease = [t \in TaskIds |-> NoLease]
    /\ idem = [k \in IdemKeys |-> NoIdem]
    /\ approvals = [t \in TaskIds |-> [c \in Categories |->
            IF t = "t1" /\ c = "manual_review"
            THEN <<[status |-> "required", requested_by |-> "router_v1",
                    decided_by |-> ""]>>
            ELSE <<>>]]
    /\ artifacts = [t \in TaskIds |-> NoArtifacts]
    /\ policy = [t \in TaskIds |-> IF t = "t1" THEN "allow" ELSE "none"]
    /\ runs = [t \in TaskIds |-> [n \in 0..(MaxAttempts + 1) |-> 0]]
    /\ proc = [p \in ProcIds |-> Idle]
    /\ ret = NoRet
    /\ script = "start"
    /\ bot = NoBot

DispatchModes == VALID_AUTONOMY_MODES \ {"readonly"}

\* ZHC_DISPATCH_OWNER of a process: p1 runs as owner-a, p2 as either owner
DispatchOwners(p) == IF p = "p1" THEN {"owner-a"} ELSE OwnerIds

DcResume ==
    \E p \in ProcIds, m \in DispatchModes : \E o \in DispatchOwners(p) :
        ResumeStart(p, "t1", m, "single_node", o) /\ UNCHANGED <<script, bot>>

DcApprove ==
    \E p \in ProcIds, d \in {"approved", "rejected"}, m \in DispatchModes :
      \E o \in DispatchOwners(p) :
        /\ ApproveStart(p, "t1", "manual_review", d, FALSE, m, "single_node", o)
        /\ UNCHANGED <<script, bot>>

DcStep == \E p \in ProcIds : CallSteps(p)

DcTick == Tick /\ UNCHANGED <<script, bot>>

DispatchConcNext == DcResume \/ DcApprove \/ DcStep \/ DcTick

SpecDispatchConc == AwaitingDb /\ [][DispatchConcNext]_vars

\* the approvals table under one caller at a time, on a task that exists and
\* on one that does not
Requesters == {"router_v1", "operator"}
Deciders == {"operator", "owner"}
DecisionWords == {"approved", "rejected", "cancelled"}
ApprovalCats == {"manual_review", "deploy_restart"}

ApprovalDb ==
    /\ now = 0
    /\ task = [t \in TaskIds |-> IF t = "t1"
                 THEN [status |-> "blocked", route_class |-> "PI_LIGHT",
                       requires_approval |-> TRUE]
                 ELSE NoTask]
    /\ events = [t \in TaskIds |-> IF t = "t1"
                   THEN <<Event("created", "PI_LIGHT")>> ELSE <<>>]
    /\ lease = [t \in TaskIds |-> NoLease]
    /\ NoRouterState
    /\ proc = [p \in ProcIds |-> Idle]
    /\ ret = NoRet
    /\ script = "start"
    /\ bot = NoBot

ApprRequest ==
    \E t \in TaskIds, c \in ApprovalCats, by \in Requesters :
        request_approval(t, c, by)

ApprDecide ==
    \E t \in TaskIds, c \in ApprovalCats, d \in DecisionWords, by \in Deciders :
        decide_approval(t, c, d, by)

ApprovalNext == ApprRequest \/ ApprDecide

SpecApproval == ApprovalDb /\ [][ApprovalNext]_vars

\* the approvals table under two concurrent callers, on one task and category
ApprConcRead ==
    \E p \in ProcIds, op \in {"request", "decide"}, by \in Requesters \cup Deciders,
       d \in DecisionWords :
        /\ op = "request" => (d = "approved" /\ by \in Requesters)
        /\ op = "decide" => by \in Deciders
        /\ ApprRead(p, op, "t1", "manual_review", by, d)

ApprConcWrite == \E p \in ProcIds : ApprWrite(p)

ApprovalConcNext == ApprConcRead \/ ApprConcWrite

SpecApprovalConc == ApprovalDb /\ [][ApprovalConcNext]_vars

\* run_command alone: calls with any retry_max, the child's exits are any.
\* A call that has started goes on (weak fairness of its steps).
RunRest == <<now, task, events, lease, idem, approvals, RouterRest, script, bot>>

RunStart ==
    \E raw \in (-1)..MaxRetry : RunCommandStart("p1", raw) /\ UNCHANGED RunRest

RunSpawn == RunCommandSpawn("p1") /\ UNCHANGED RunRest

RunReturn == RunCommandReturn("p1") /\ UNCHANGED RunRest

RunNext == RunStart \/ RunSpawn \/ RunReturn

SpecRunCommand ==
    EmptyDb /\ [][RunNext]_vars /\ WF_vars(RunSpawn) /\ WF_vars(RunReturn)

\* what the ingress leaves alone
BotRest == <<task, events, lease, idem, approvals, RouterRest, proc, script>>

\* the rate limiter alone: messages of two chats over more than a minute,
\* under any of the caps below
PerMinuteCaps == {1, 2}
BurstCaps == {0, 1, 2}

RateDb ==
    /\ now = 0
    /\ task = [t \in TaskIds |-> NoTask]
    /\ events = [t \in TaskIds |-> <<>>]
    /\ lease = [t \in TaskIds |-> NoLease]
    /\ NoRouterState
    /\ proc = [p \in ProcIds |-> Idle]
    /\ ret = NoRet
    /\ script \in [per_minute : PerMinuteCaps, burst : BurstCaps]
    /\ bot = [NoBot EXCEPT !.buckets = [c \in ChatIds |-> <<>>]]

RateSend ==
    \E c \in ChatIds : RateMessage(c) /\ UNCHANGED <<now, BotRest>>

RateTick ==
    /\ now < MaxClock
    /\ now' = now + 1
    /\ ret' = [op |-> "tick"]
    /\ UNCHANGED <<BotRest, bot>>

RateNext == RateSend \/ RateTick

SpecRate == RateDb /\ [][RateNext]_vars

\* two ingress processes started on one node, at any time
LockRest == <<now, task, events, lease, idem, approvals, RouterRest, script>>

LockMain == \E p \in ProcIds : IngressMain(p) /\ UNCHANGED LockRest

LockAcquire == \E p \in ProcIds : IngressAcquire(p) /\ UNCHANGED LockRest

LockPoll == \E p \in ProcIds : IngressPoll(p) /\ UNCHANGED LockRest

LockExit == \E p \in ProcIds : IngressExit(p) /\ UNCHANGED LockRest

LockKilled == \E p \in ProcIds : IngressKilled(p) /\ UNCHANGED LockRest

LockUnlink == StaleLockRemoved /\ UNCHANGED LockRest

LockNext == LockMain \/ LockAcquire \/ LockPoll \/ LockExit \/ LockKilled \/ LockUnlink

SpecLock == EmptyDb /\ [][LockNext]_vars

\* the poll loop alone, under any of the configurations, with fetches that
\* fail and succeed in any order
PollIntervals == {0, 10, 30}
MaxBackoffs == {5, 20, 600}

PollDb ==
    /\ now = 0
    /\ task = [t \in TaskIds |-> NoTask]
    /\ events = [t \in TaskIds |-> <<>>]
    /\ lease = [t \in TaskIds |-> NoLease]
    /\ NoRouterState
    /\ proc = [p \in ProcIds |-> Idle]
    /\ ret = NoRet
    /\ script \in [poll_interval : PollIntervals, max_backoff : MaxBackoffs]
    /\ bot = NoBot

PollRest == <<now, task, events, lease, idem, approvals, RouterRest, script, bot>>

PollStart == PollLoopStart("p1") /\ UNCHANGED PollRest

PollFails == PollCycleFails("p1") /\ UNCHANGED PollRest

PollSucceeds == PollCycleSucceeds("p1") /\ UNCHANGED PollRest

PollNext == PollStart \/ PollFails \/ PollSucceeds

SpecPoll == PollDb /\ [][PollNext]_vars

\* the context compaction on texts of up to MaxLines lines and small and
\* large budgets
LineLens == {3, 60, 250}
Budgets == {1, 10, 30, 1200}
Texts == UNION { [1..n -> [kind : LineKinds, len : LineLens]] : n \in 0..MaxLines }

CompactDb ==
    /\ now = 0
    /\ task = [t \in TaskIds |-> NoTask]
    /\ events = [t \in TaskIds |-> <<>>]
    /\ lease = [t \in TaskIds |-> NoLease]
    /\ NoRouterState
    /\ proc = [p \in ProcIds |-> Idle]
    /\ ret = NoRet
    /\ script \in [text : Texts, budget : Budgets]
    /\ bot = NoBot

CompactNext ==
    CompactText /\ UNCHANGED <<now, task, events, lease, idem, approvals, RouterRest, proc, script, bot>>

SpecCompact == CompactDb /\ [][CompactNext]_vars

\* the policy evaluator on every request under every policy file: the
\* allowlist of the route class is missing or empty, or lists some task types
RawEnforcements == {"strict", "warn", "audit"}
Allowlists == {{}, {"ping"}, {"code_refactor", "deploy"}}

PolicyDb ==
    /\ now = 0
    /\ task = [t \in TaskIds |-> NoTask]
    /\ events = [t \in TaskIds |-> <<>>]
    /\ lease = [t \in TaskIds |-> NoLease]
    /\ NoRouterState
    /\ proc = [p \in ProcIds |-> Idle]
    /\ ret = NoRet
    /\ script \in [task_type : TaskTypes, keyword : BOOLEAN, path : BOOLEAN,
                    mode : VALID_AUTONOMY_MODES, enforcement : RawEnforcements,
                    allowed : Allowlists]
    /\ bot = NoBot

PolicyNext ==
    PolicyEvaluate /\ UNCHANGED <<now, task, events, lease, idem, approvals, RouterRest, proc, script, bot>>

SpecPolicy == PolicyDb /\ [][PolicyNext]_vars

\* the metadata of one task under two callers of merge_task_metadata
MetaDb ==
    /\ now = 0
    /\ task = [t \in TaskIds |->
                 IF t = "t1" THEN [BlockedTask EXCEPT !.status = "running"] @@ [metadata |-> <<>>]
                 ELSE NoTask]
    /\ events = [t \in TaskIds |-> <<>>]
    /\ lease = [t \in TaskIds |-> NoLease]
    /\ NoRouterState
    /\ proc = [p \in ProcIds |-> Idle]
    /\ ret = NoRet
    /\ script = "start"
    /\ bot = NoBot

MetaRest == <<now, lease, idem, approvals, RouterRest, script, bot>>

MetaRead ==
    \E p \in ProcIds, t \in TaskIds, patch \in Metadatas :
        MergeRead(p, t, patch) /\ UNCHANGED MetaRest

MetaWrite == \E p \in ProcIds : MergeWrite(p) /\ UNCHANGED MetaRest

MetaNext == MetaRead \/ MetaWrite

SpecMeta == MetaDb /\ [][MetaNext]_vars

\* the ingress alone: two updates whose chat and kind are any, delivered by
\* the poll loop
Inboxes == [UpdateIds -> [chat : ChatIds, kind : UpdateKinds]]

BotDb ==
    /\ now = 0
    /\ task = [t \in TaskIds |-> NoTask]
    /\ events = [t \in TaskIds |-> <<>>]
    /\ lease = [t \in TaskIds |-> NoLease]
    /\ NoRouterState
    /\ proc = [p \in ProcIds |-> Idle]
    /\ ret = NoRet
    /\ script = "start"
    /\ \E inbox \in Inboxes :
          bot = [inbox |-> inbox,
                 audit |-> [u \in UpdateIds |-> <<>>],
                 replies |-> [u \in UpdateIds |-> 0],
                 executed |-> [u \in UpdateIds |-> 0],
                 delivered |-> [u \in UpdateIds |-> 0],
                 buckets |-> [c \in ChatIds |-> <<>>],
                 offset |-> 0, poll_errors |-> 0, pending |-> 0, lock |-> ""]

BotDeliver ==
    \E handler \in HandlerOutcomes, sent1 \in BOOLEAN, sent2 \in BOOLEAN :
        BotProcess(handler, sent1, sent2) /\ UNCHANGED <<now, BotRest>>

BotOffset == BotWriteOffset /\ UNCHANGED <<now, BotRest>>

BotKilled == BotRestart /\ UNCHANGED <<now, BotRest>>

BotTick == Tick /\ UNCHANGED <<script, bot>>

BotNext == BotDeliver \/ BotOffset \/ BotKilled \/ BotTick

SpecBot == BotDb /\ [][BotNext]_vars

-----------------------------------------------------------------------------
(* Properties of the tasks table *)

\* the state machine as the specification prints it (section 4.1)
SpecTransitions(s) ==
    CASE s \in {"requested", "pending"} ->
            {"approved", "queued", "running", "blocked", "cancelled", "failed"}
      [] s = "approved" -> {"queued", "running", "blocked", "cancelled", "failed"}
      [] s = "queued"   -> {"queued", "running", "blocked", "cancelled", "failed", "expired"}
      [] s = "running"  -> {"running", "succeeded", "failed", "blocked", "cancelled", "expired"}
      [] s = "blocked"  -> {"approved", "queued", "running", "succeeded", "failed",
                            "cancelled", "expired"}
      [] OTHER          -> {}

SpecTerminal == {"succeeded", "failed", "cancelled", "expired"}

C2_TerminalAbsorbing ==
    [][ \A t \in TaskIds :
          ( /\ NormStatus(task[t].status) \in SpecTerminal
            /\ NormStatus(task'[t].status) # NormStatus(task[t].status) )
          => (ret'.op = "update_task" /\ ret'.force)
      ]_vars

-----------------------------------------------------------------------------
(* Properties of the lease table *)

HeldRunning(t) == lease[t].lease_status = "running" /\ lease[t].lease_expires_at > now

ClaimStep(t) == ret'.op = "claim" /\ ret'.task = t /\ task[t] # NoTask

SameLeaseCore(t) ==
    /\ lease'[t].owner_id = lease[t].owner_id
    /\ lease'[t].lease_status = lease[t].lease_status
    /\ lease'[t].attempt_count = lease[t].attempt_count
    /\ lease'[t].lease_expires_at = lease[t].lease_expires_at

\* a claim by another owner while the lease is held: refused, lease untouched
DeniedToOther(t) ==
    (ClaimStep(t) /\ HeldRunning(t) /\ ret'.owner # lease[t].owner_id)
    => /\ ~ret'.claimed
       /\ ret'.reason = "held_by_other_owner"
       /\ SameLeaseCore(t)

\* C7 as stated: while owner A holds a running, unexpired lease, a claim by any
\* other owner is refused with held_by_other_owner and leaves owner, status,
\* attempt_count and expiry as they were; a claim by A itself returns
\* claimed=true (refreshed), does not increment attempt_count and extends the
\* expiry (the new expiry is not earlier than the old one).
C7_AsStated ==
    [][ \A t \in TaskIds :
          /\ DeniedToOther(t)
          /\ (ClaimStep(t) /\ HeldRunning(t) /\ ret'.owner = lease[t].owner_id)
             => /\ ret'.claimed
                /\ ret'.reason = "refreshed"
                /\ lease'[t].attempt_count = lease[t].attempt_count
                /\ lease'[t].lease_expires_at >= lease[t].lease_expires_at
      ]_vars

\* C7, amended: as C7, except that the claim by A itself sets the expiry to the
\* time of the claim plus max(1, lease_seconds): later than the time of the claim,
\* and earlier than the old expiry when lease_seconds is shorter than the time
\* the lease had left.  Owner and status stay as they were.
C7_ClaimWhileHeld ==
    [][ \A t \in TaskIds :
          /\ DeniedToOther(t)
          /\ (ClaimStep(t) /\ HeldRunning(t) /\ ret'.owner = lease[t].owner_id)
             => /\ ret'.claimed
                /\ ret'.reason = "refreshed"
                /\ lease'[t].attempt_count = lease[t].attempt_count
                /\ lease'[t].owner_id = lease[t].owner_id
                /\ lease'[t].lease_status = "running"
                /\ \E ls \in LeaseSeconds :
                      lease'[t].lease_expires_at = now + (IF ls < 1 THEN 1 ELSE ls)
                /\ lease'[t].lease_expires_at > now
      ]_vars

\* owner-b was refused while owner-a held the lease
C7_Witness ==
    /\ ret.op = "claim"
    /\ ret.owner = "owner-b"
    /\ ~ret.claimed
    /\ ret.reason = "held_by_other_owner"
    /\ ret.at = now
    /\ lease["t1"].owner_id = "owner-a"
    /\ HeldRunning("t1")

\* C8: when two owners claim the same queued or expired lease concurrently, at
\* most one is told claimed=true: at no instant do two callers both hold, as far
\* as each was told, the running lease that has not yet expired.
C8_OneHolder ==
    \A p, q \in ProcIds :
        (p # q /\ proc[p].held_until > now /\ proc[q].held_until > now) => FALSE

\* C9: after owner A's running lease has expired, a claim by another owner B
\* succeeds, with or without a reconcile before it: the lease is then running,
\* owned by B, and its attempt_count is larger than before; and after
\* enqueue(A), claim(A), expiry, reconcile(B), claim(B) the attempt_count is 2.
C9_ReclaimAfterExpiry ==
    /\ [][ \A t \in TaskIds :
              ( /\ ClaimStep(t)
                /\ \/ /\ lease[t].lease_status = "running"
                      /\ lease[t].lease_expires_at <= now
                      /\ lease[t].owner_id # ret'.owner
                   \/ /\ lease[t].lease_status = "queued"
                      /\ lease[t].last_error = "lease_expired_reconciled" )
              => /\ ret'.claimed
                 /\ lease'[t].owner_id = ret'.owner
                 /\ lease'[t].lease_status = "running"
                 /\ lease'[t].attempt_count > lease[t].attempt_count
          ]_vars
    /\ [](script = "reclaimed" =>
            /\ lease["t1"].owner_id = "owner-b"
            /\ lease["t1"].lease_status = "running"
            /\ lease["t1"].attempt_count = 2)

C9_Witness ==
    /\ script = "reclaimed"
    /\ lease["t1"].owner_id = "owner-b"
    /\ lease["t1"].attempt_count = 2
    /\ lease["t1"].last_error = "lease_expired_reconciled"

-----------------------------------------------------------------------------
(* Properties of the idempotency keys *)

\* C10: after complete_idempotency(key, completed, r), every later begin on that
\* key with the hash of the first begin returns exists=true, conflict=false,
\* status=completed and result=r and leaves the record as it is, whatever other
\* begin calls were made on the key in between.
C10_ReplayAfterComplete ==
    [][ \A k \in IdemTestKeys :
          ( /\ script[k] = "sealed"
            /\ ret'.op = "begin" /\ ret'.key = k
            /\ ret'.hash = idem[k].payload_hash )
          => /\ ret'.exists
             /\ ~ret'.conflict
             /\ ret'.status = "completed"
             /\ ret'.stored = idem[k].result
             /\ idem' = idem
      ]_vars

-----------------------------------------------------------------------------
(* Properties of the router *)

\* the step invokes a worker for task t
WorkerStarts(t) == runs'[t] # runs[t]

\* C4: a task that the policy evaluator denied when it was routed is never
\* dispatched to a worker, by the route call or by any later approve or resume.
C4_DeniedNeverDispatched ==
    [][ \A t \in TaskIds : policy[t] = "deny" => ~WorkerStarts(t) ]_vars

\* C5: a task with requires_approval=true is dispatched to a worker only when
\* the approval row that the router requested for it was approved at the
\* blocker check of the dispatching call, whatever action_category the
\* approve calls named.
C5_RequestedApprovalGates ==
    [][ \A p \in ProcIds :
          ( /\ ret'.op = "worker" /\ ret'.by = p /\ ret'.invoked
            /\ proc[p].snap.requires_approval )
          => proc[p].requested_ok ]_vars

\* C6: the worker of a HEAVY task is invoked only by a call whose blocker check
\* saw the planner artifact and a latest reviewer artifact with verdict pass and
\* a complete checklist; a recorded review replaces the one before it, and a
\* blocker check that finds the latest verdict fail leaves the task blocked.
C6_ReviewGate ==
    [][ /\ \A p \in ProcIds :
             ( /\ ret'.op = "worker" /\ ret'.by = p /\ ret'.invoked
               /\ proc[p].snap.route_class = "UBUNTU_HEAVY" )
             => /\ proc[p].art.planner
                /\ proc[p].art.verdict = "pass"
                /\ proc[p].art.checklist \in {"all_true", "some_false"}
        /\ ( ret'.op = "record_review" /\ ret'.result = "ok" )
             => artifacts'[ret'.task].verdict = ret'.verdict
        /\ \A p \in ProcIds :
             ( /\ ret'.op = "blockers" /\ ret'.by = p
               /\ proc[p].snap.route_class = "UBUNTU_HEAVY"
               /\ artifacts[proc[p].task].verdict # "pass" )
             => ret'.blocked /\ proc'[p].pc = "return"
      ]_vars

\* a HEAVY task's worker has run, so its gate was passed at the blocker check
C6_Witness ==
    /\ ret.op = "worker" /\ ret.invoked
    /\ task[ret.task].route_class = "UBUNTU_HEAVY"
    /\ runs[ret.task][ret.attempt_count] = 1

\* C3: for every task and every attempt_count the worker is started at most
\* once, however the approve and resume calls of the router processes
\* interleave; a further start needs a larger attempt_count.
C3_OncePerAttempt ==
    \A t \in TaskIds : \A n \in DOMAIN runs[t] : runs[t][n] <= 1

\* C11: a begin on an existing key with a differing payload_hash sets the
\* record to conflict and returns conflict=true with the stored result; and a
\* dispatch call whose idempo-begin finds its key in status conflict stops
\* with pending idempotency_conflict instead of going on to the worker.
C11_ConflictIsHardStop ==
    [][ /\ \A k \in IdemKeys :
             ( /\ ret'.op = "begin" /\ ret'.key = k /\ ret'.result = "ok"
               /\ idem[k] # NoIdem /\ idem[k].payload_hash # ret'.hash )
             => /\ idem'[k].status = "conflict"
                /\ ret'.conflict
                /\ ret'.stored = idem[k].result
        /\ \A p \in ProcIds :
             ( /\ proc[p].pc = "disp_begin" /\ proc'[p] # proc[p]
               /\ idem[DispatchKey(proc[p].task, proc[p].attempt)].status = "conflict" )
             => /\ proc'[p].pc = "return"
                /\ proc'[p].out.pending = "idempotency_conflict"
      ]_vars

-----------------------------------------------------------------------------
(* Properties of the telegram ingress *)

\* C12: for every update_id the command handler is executed at most once over
\* all deliveries of the update; every delivery after the first is audited as
\* idempotent_replay, executes nothing and sends no reply.
C12_HandlerOncePerUpdate ==
    [][ \A u \in UpdateIds :
          /\ bot'.executed[u] <= 1
          /\ ( bot.delivered[u] >= 1 /\ bot'.delivered[u] > bot.delivered[u] )
               => /\ bot'.executed[u] = bot.executed[u]
                  /\ bot'.replies[u] = bot.replies[u]
                  /\ bot'.audit[u] = Append(bot.audit[u], "idempotent_replay")
      ]_vars


\* C13: every delivery of an update that carries a message writes exactly one
\* audit line for it and sends at most one reply, whatever the outcome.
C13_OneAuditLinePerUpdate ==
    [][ \A u \in UpdateIds :
          ( bot'.delivered[u] > bot.delivered[u] /\ bot.inbox[u].kind # "no_message" )
          => /\ Len(bot'.audit[u]) = Len(bot.audit[u]) + 1
             /\ bot'.replies[u] <= bot.replies[u] + 1
      ]_vars


-----------------------------------------------------------------------------
(* Properties of the approvals table *)

\* the rows of task t and category c whose status is "required"
RequiredRows(t, c) ==
    {i \in DOMAIN approvals[t][c] : approvals[t][c][i].status = "required"}

\* C14: in every reachable state, whatever the order and interleaving of the
\* request_approval and decide_approval calls, a task and action category
\* have at most one approval row that is not terminal (status "required")
C14_OneRequiredRow ==
    \A t \in TaskIds : \A c \in Categories : Cardinality(RequiredRows(t, c)) <= 1


\* C15: a decide_approval call on an approval that is already terminal
\* succeeds and leaves the row as it is when the decision is the row's status,
\* and fails with an error and leaves the row as it is when the decision is
\* another one; no row goes from approved to rejected or from rejected to
\* approved
C15_TerminalDecisionIsFinal ==
    [][ /\ \A t \in TaskIds : \A c \in Categories :
             ( /\ ret'.op = "approval_decide" /\ ret'.task = t /\ ret'.category = c
               /\ ret'.decision \in {"approved", "rejected"}
               /\ LatestApproval(t, c).status \in {"approved", "rejected", "cancelled"} )
             => /\ approvals'[t][c] = approvals[t][c]
                /\ ret'.result = IF ret'.decision = LatestApproval(t, c).status
                                 THEN "ok" ELSE "InvalidArgument"
        /\ \A t \in TaskIds : \A c \in Categories : \A i \in DOMAIN approvals[t][c] :
             /\ approvals[t][c][i].status = "approved"
                    => approvals'[t][c][i].status # "rejected"
             /\ approvals[t][c][i].status = "rejected"
                    => approvals'[t][c][i].status # "approved" ]_vars


-----------------------------------------------------------------------------
(* Properties of the transactions of create_task and update_task *)

\* C16: a create_task or update_task that succeeds makes its change of the
\* tasks row and its task_events row visible in one step; no step, a failure
\* between the two statements included, changes the row without adding the
\* event or adds the event without the row holding the status of the call
C16_RowAndEventTogether ==
    [][ \A t \in TaskIds :
          /\ ( ret'.op \in {"create_task", "update_task"} /\ ret'.task = t
               /\ ret'.result = "ok" )
             => /\ task'[t].status = ret'.status
                /\ events'[t] = Append(events[t], events'[t][Len(events'[t])])
                /\ events'[t][Len(events'[t])].type =
                       IF ret'.op = "create_task" THEN "created" ELSE "status_updated"
          /\ task'[t] # task[t] => Len(events'[t]) = Len(events[t]) + 1
          /\ events'[t] # events[t]
             => /\ ret'.op \in {"create_task", "update_task"} /\ ret'.task = t
                /\ ret'.result = "ok" /\ task'[t].status = ret'.status ]_vars

\* an update_task failed after its UPDATE and before its event, on a task whose
\* earlier update was committed: the row still has the committed status
C16_Witness ==
    /\ ret.op = "update_task" /\ ret.result = "failed" /\ ret.executed = 1
    /\ ret.status # task["t1"].status
    /\ Len(events["t1"]) = 2
    /\ events["t1"][2].type = "status_updated"
    /\ events["t1"][2].detail = task["t1"].status


-----------------------------------------------------------------------------
(* Properties of the event log *)

\* C17: every registry operation that changes a row of approvals,
\* task_dispatch_lease or idempotency_keys adds at least one row to
\* task_events in the same step (its transaction)
C17_MutationAppendsEvent ==
    [][ ( approvals' # approvals \/ lease' # lease \/ idem' # idem )
        => \E t \in TaskIds : /\ Len(events'[t]) > Len(events[t])
                              /\ SubSeq(events'[t], 1, Len(events[t])) = events[t] ]_vars


\* C18: the event log of a task is append-only and ordered: what get_task
\* returns as the task's events is, at every step, the beginning of what it
\* returns after the step, so an earlier result is a prefix of any later one
C18_EventLogAppendOnly ==
    [][ \A t \in TaskIds : IsPrefix(GetTaskEvents(t), GetTaskEvents(t)') ]_vars

\* a task whose log has grown three times since get_task first returned it:
\* created, then rows of the router and of an approval
C18_Witness ==
    /\ Len(GetTaskEvents("t1")) = MaxEvents
    /\ GetTaskEvents("t1")[1].type = "created"
    /\ \E i \in 2..MaxEvents : GetTaskEvents("t1")[i].type = "approval_requested"
    /\ GetTaskEvents("t1")[2].type = "router"


-----------------------------------------------------------------------------
(* Properties of approve_task and resume_task *)

\* the call of process p is a resume_task that read a blocked HEAVY task whose
\* approval is approved, and the planner and reviewer gate of the task passes
ResumeReady(p, t) ==
    /\ proc[p].pc \notin {"idle", "resume_get"}
    /\ proc[p].call = "resume" /\ proc[p].task = t
    /\ proc[p].snap.route_class = "UBUNTU_HEAVY"
    /\ proc[p].snap.approved
    /\ GatePassed(artifacts[t])

\* the call of process p is an approve_task with decision approved and
\* defer_dispatch=true on a HEAVY task
ApproveDeferred(p, t) ==
    /\ proc[p].pc # "idle"
    /\ proc[p].call = "approve" /\ proc[p].task = t
    /\ proc[p].defer /\ proc[p].decision = "approved"
    /\ task[t].route_class = "UBUNTU_HEAVY"

ResumeStep(t) ==
    \/ /\ proc["p1"] = Idle
       /\ proc'["p1"].pc = "resume_get" /\ proc'["p1"].task = t
    \/ /\ proc["p1"] = Idle
       /\ ret'.op = "resume" /\ ret'.task = t
    \/ /\ proc["p1"].pc = "resume_get" /\ proc["p1"].task = t
       /\ proc'["p1"] # proc["p1"]

\* C20 with the autonomy mode taken into account: a resume_task on a task
\* whose status is terminal (succeeded, failed, cancelled, expired) or in
\* progress (queued, running) changes neither the status nor the worker runs
\* of the task; unless the mode is readonly, where the call is refused, it
\* returns the status of the task
C20_ResumeNoop ==
    [][ \A t \in TaskIds :
          ( /\ task[t].status \in {"succeeded", "failed", "cancelled", "expired",
                                   "queued", "running"}
            /\ ResumeStep(t) )
          => /\ task'[t].status = task[t].status
             /\ runs'[t] = runs[t]
             /\ proc["p1"].pc = "resume_get"
                => /\ ret'.op = "resume" /\ ret'.result = "ok"
                   /\ ret'.status = task[t].status
                   /\ proc'["p1"] = Idle
             /\ ( ret'.op = "resume" /\ ret'.result # "ok" )
                => \A p \in ProcIds : proc'[p] = proc[p] ]_vars

\* C20 as it is stated: every resume_task on such a task returns the status of
\* the task
C20_AsStated ==
    [][ \A t \in TaskIds :
          ( /\ task[t].status \in {"succeeded", "failed", "cancelled", "expired",
                                   "queued", "running"}
            /\ proc["p1"].pc \in {"idle", "resume_get"}
            /\ ret'.op = "resume" /\ ret'.task = t )
          => /\ task'[t].status = task[t].status
             /\ runs'[t] = runs[t]
             /\ ret'.result = "ok"
             /\ ret'.status = task[t].status ]_vars

\* a resume_task on a running task returned running and the worker, which the
\* first resume started, has still run once
C20_Witness ==
    /\ ret.op = "resume" /\ ret.result = "ok" /\ ret.pending = "noop"
    /\ ret.status = "running" /\ task["t1"].status = "running"
    /\ runs["t1"][1] = 1
    /\ proc["p1"] = Idle


\* the worker runs of task t, over all attempts
RECURSIVE RunsUpTo(_, _)
RunsUpTo(t, n) == IF n = 0 THEN runs[t][0] ELSE runs[t][n] + RunsUpTo(t, n - 1)

TotalRuns(t) == RunsUpTo(t, MaxAttempts + 1)

\* C21: in any sequence of approve_task and resume_task calls on a task, the
\* worker is started at most once in total, and an approve_task with decision
\* approved on an approval that is already approved leaves the row approved
C21_RepeatsDispatchOnce ==
    [][ \A t \in TaskIds :
          /\ TotalRuns(t)' <= 1
          /\ \A c \in Categories :
               ( /\ proc["p1"].pc # "idle" /\ proc["p1"].call = "approve"
                 /\ proc["p1"].task = t /\ proc["p1"].category = c
                 /\ proc["p1"].decision = "approved"
                 /\ LatestApproval(t, c).status = "approved" )
               => /\ approvals'[t][c] = approvals[t][c]
                  /\ ( proc["p1"].pc = "approve_decide" /\ proc'["p1"] # proc["p1"] )
                     => ret'.result = "ok" ]_vars


\* a second resume_task found the HEAVY task succeeded, its approval approved,
\* and returned without a second run of the worker
C21_Witness ==
    /\ ret.op = "resume" /\ ret.result = "ok" /\ ret.pending = "noop"
    /\ ret.status = "succeeded"
    /\ task["t1"].route_class = "UBUNTU_HEAVY"
    /\ \E c \in Categories : LatestApproval("t1", c).status = "approved"
    /\ TotalRuns("t1") = 1


-----------------------------------------------------------------------------
(* Properties of run_command *)

\* the exits of a run_command call: all but the last are failures with a
\* transient error text
RetriedOnTransient(exits) ==
    \A i \in 1..(Len(exits) - 1) :
        exits[i].returncode # 0 /\ exits[i].err \cap TransientMarkers # {}

\* C22: a run_command call starts the child at most retry_max + 1 times and
\* returns; it starts the child again only after a failure whose error text
\* holds a transient marker, returns at the first exit code 0 (success), and
\* reports failed after a failure that is not transient or after the last
\* permitted attempt; with retry_max = 1, a transient failure followed by exit
\* code 0 is two runs and a success
C22_BoundedRetries ==
    /\ [][ ret'.op = "run_command"
           => /\ Len(ret'.exits) >= 1
              /\ Len(ret'.exits) <= ret'.retry_max + 1
              /\ RetriedOnTransient(ret'.exits)
              /\ ret'.returncode = ret'.exits[Len(ret'.exits)].returncode
              /\ ret'.status = IF ret'.returncode = 0 THEN "succeeded" ELSE "failed"
              /\ ret'.returncode # 0
                 => \/ ret'.exits[Len(ret'.exits)].err \cap TransientMarkers = {}
                    \/ Len(ret'.exits) = ret'.retry_max + 1
              /\ ( /\ ret'.retry_max = 1 /\ Len(ret'.exits) >= 2
                   /\ ret'.exits[2].returncode = 0 )
                 => Len(ret'.exits) = 2 /\ ret'.status = "succeeded" ]_vars
    /\ [][ proc["p1"].pc = "rc_spawn"
           => Len(proc["p1"].exits) <= proc["p1"].retry_max ]_vars
    /\ ( proc["p1"].pc # "idle" ~> proc["p1"].pc = "idle" )

\* retry_max = 1, a timeout at the first run and exit code 0 at the second:
\* two runs, reported as success
C22_Witness ==
    /\ ret.op = "run_command" /\ ret.retry_max = 1
    /\ Len(ret.exits) = 2
    /\ ret.exits[1].returncode = 124
    /\ ret.returncode = 0 /\ ret.status = "succeeded"


\* C23: every update with a message from a chat that is not on the (non-empty)
\* allowlist gets the audit status unauthorized and does not run the command
\* handler, whatever the rate-limit entries of that chat are
C23_UnauthorizedBeforeRateLimit ==
    [][ \A u \in UpdateIds :
          ( /\ bot'.delivered[u] > bot.delivered[u]
            /\ bot.inbox[u].kind # "no_message"
            /\ allowed_ids # {} /\ bot.inbox[u].chat \notin allowed_ids )
          => /\ bot'.audit[u] = Append(bot.audit[u], "unauthorized")
             /\ bot'.executed[u] = bot.executed[u] ]_vars


\* the entries of a chat that lie in the window of `span` clock steps before now
InWindow(chat, span) == SelectSeq(bot.buckets[chat], LAMBDA ts : ts >= now - span)

\* C24: with a per-minute cap N and the burst cap not binding, a message of a
\* chat is allowed when fewer than N messages of that chat were allowed in the
\* sixty seconds before it (so the N-th is allowed) and rejected when N were
\* (the N+1-th); the entries of the other chats play no part and are not
\* changed
C24_PerMinuteCap ==
    [][ \A c \in ChatIds :
          ( /\ ret'.op = "allow_message" /\ ret'.chat = c
            /\ ~( script.burst > 0 /\ Len(InWindow(c, BurstWindow)) >= script.burst ) )
          => /\ ret'.allowed <=> Len(InWindow(c, MinuteWindow)) < script.per_minute
             /\ \A d \in ChatIds \ {c} : bot'.buckets[d] = bot.buckets[d] ]_vars

\* under cap 2 without burst cap, a third message of the operator inside the
\* minute was rejected while the stranger's bucket holds one entry
C24_Witness ==
    /\ script = [per_minute |-> 2, burst |-> 0]
    /\ ret.op = "allow_message" /\ ret.chat = "operator" /\ ~ret.allowed
    /\ Len(bot.buckets["operator"]) = 2
    /\ bot.buckets["operator"][1] + MinuteWindow = now
    /\ Len(bot.buckets["stranger"]) = 1


\* the ingress processes that run the poll loop
Polling == {p \in ProcIds : proc[p].pc = "poll_loop"}

\* C25: at most one ingress process has the lock and runs the poll loop, and
\* it is the one whose pid the lock file holds; a process that reaches
\* acquire_lock while the lock file exists returns lock_exists without a
\* fetch, also when the other process started at the same time
C25_SingleInstance ==
    /\ [] ( /\ Cardinality(Polling) <= 1
            /\ \A p \in Polling : bot.lock = p )
    /\ [][ \A p \in ProcIds :
             ( proc[p].pc = "acquire_lock" /\ bot.lock # "" /\ proc'[p] # proc[p] )
             => /\ proc'[p] = Idle /\ proc[p].fetched = 0
                /\ ret' = [op |-> "main", by |-> p, result |-> "lock_exists"]
                /\ bot' = bot ]_vars

\* both processes were started together; p2 got the lock and has fetched, p1
\* was turned away
C25_Witness ==
    /\ proc["p2"].pc = "poll_loop" /\ proc["p2"].fetched = 1
    /\ proc["p1"] = Idle
    /\ bot.lock = "p2"
    /\ ret = [op |-> "main", by |-> "p1", result |-> "lock_exists"]


\* C26: the offset file changes only by write_offset(u + 1) for the update u
\* whose process_update has just returned; process_update starts on update u
\* only when the file holds u (or nothing yet, for the first update), so the
\* offset of the update before it was written first; no update below the
\* persisted offset was left unprocessed, whatever restarts happen
C26_OffsetFollowsProcessing ==
    /\ [] ( \A u \in UpdateIds : u < bot.offset => bot.delivered[u] >= 1 )
    /\ [][ bot'.offset # bot.offset
             => /\ bot.pending # 0
                /\ bot'.offset = bot.pending + 1
                /\ bot.delivered[bot.pending] >= 1 ]_vars
    /\ [][ bot'.delivered # bot.delivered
             => /\ bot.pending = 0
                /\ \E u \in UpdateIds :
                      /\ bot'.delivered = [bot.delivered EXCEPT ![u] = @ + 1]
                      /\ bot.offset = u \/ ( bot.offset = 0 /\ u = 1 ) ]_vars

\* update 1 was processed, the process was killed before write_offset and
\* started again, update 1 was processed once more and its offset written;
\* update 2 is not yet touched
C26_Witness ==
    /\ bot.offset = 2
    /\ bot.pending = 0
    /\ bot.delivered[1] = 2
    /\ bot.delivered[2] = 0
    /\ bot.poll_errors = 0
    /\ ret = [op |-> "write_offset", update |-> 1, raised |-> FALSE]


\* the last audit line of update u says that its handler or its reply failed
HandlerFailed(u) ==
    /\ bot.audit[u] # <<>>
    /\ bot.audit[u][Len(bot.audit[u])] \in {"error", "command_timeout"}

\* C27: a process_update that ended in the error branch (audit line
\* command_timeout or error, reply attempted) returns to poll_loop without
\* raising, so that the offset moves past the update and the update is not
\* processed again
C27_FailureDoesNotRepeatUpdate ==
    /\ ( ret.op = "process_update" /\ HandlerFailed(ret.update) ) => ~ret.raised
    /\ \A u \in UpdateIds : HandlerFailed(u) => bot.executed[u] <= 1


\* C28: a failed fetch cycle writes a poll_error line with the number of
\* consecutive failures and sleeps a backoff that is twice the one before
\* (or the cap) and is never above the configured cap; the first successful
\* fetch after failures writes a poll_recovered line and resets the count and
\* the backoff
C28_BackoffAndRecovery ==
    [][ proc'["p1"] # proc["p1"] /\ proc["p1"].pc = "poll_loop"
          => /\ ret'.status = "poll_error"
                  => /\ ret'.error_count = proc["p1"].error_count + 1
                     /\ ret'.slept <= script.max_backoff
                     /\ proc["p1"].error_count >= 1
                          => \/ ret'.slept = 2 * ret.slept
                             \/ ret'.slept = script.max_backoff
             /\ ( ret'.status # "poll_error" /\ proc["p1"].error_count >= 1 )
                  => /\ ret'.status = "poll_recovered"
                     /\ proc'["p1"].error_count = 0
                     /\ proc'["p1"].backoff_seconds = FirstBackoff(script)
      ]_vars


\* C29: no call on the lease table makes the attempt_count of a task smaller,
\* and an enqueue that puts a terminal or expired lease back to queued leaves
\* the count as it was
C29_AttemptCountMonotone ==
    [][ \A t \in TaskIds :
          /\ lease'[t].attempt_count >= lease[t].attempt_count
          /\ ( ret'.op = "enqueue" /\ lease'[t] # lease[t] /\ lease[t].lease_status # "none" )
               => /\ lease'[t].lease_status = "queued"
                  /\ lease'[t].attempt_count = lease[t].attempt_count
      ]_vars


\* C30: a claim by another owner made at the very time the running lease
\* expires is granted, one made before that time is denied and changes
\* nothing; enqueue resets an active lease, and reconcile requeues it, from
\* that same time on and not before
C30_ExpiryBoundary ==
    [][ \A t \in TaskIds :
          /\ ( /\ ret'.op = "claim" /\ ret'.task = t /\ ret'.result = "ok"
               /\ lease[t].lease_status = "running"
               /\ lease[t].owner_id # ret'.owner )
             => /\ lease[t].lease_expires_at = now
                     => /\ ret'.claimed /\ ret'.reason = "claimed"
                        /\ lease'[t].owner_id = ret'.owner
                        /\ lease'[t].lease_status = "running"
                /\ now < lease[t].lease_expires_at
                     => /\ ~ret'.claimed /\ ret'.reason = "held_by_other_owner"
                        /\ lease'[t] = lease[t]
          /\ ( /\ ret'.op = "enqueue" /\ ret'.task = t /\ ret'.result = "ok"
               /\ lease[t].lease_status \in ACTIVE_LEASE_STATUSES )
             => /\ lease[t].lease_expires_at = now
                     => /\ ret'.reason = "enqueue_reset"
                        /\ lease'[t].lease_status = "queued"
                        /\ lease'[t].owner_id = ret'.owner
                /\ now < lease[t].lease_expires_at
                     => /\ ret'.reason = "enqueue_noop"
                        /\ lease'[t] = lease[t]
          /\ ( /\ ret'.op = "reconcile"
               /\ lease[t].lease_status \in ACTIVE_LEASE_STATUSES )
             => /\ lease[t].lease_expires_at = now
                     => /\ lease'[t].lease_status = "queued"
                        /\ lease'[t].owner_id = ret'.owner
                        /\ lease'[t].last_error = "lease_expired_reconciled"
                /\ now < lease[t].lease_expires_at
                     => lease'[t] = lease[t]
      ]_vars

\* owner-a claimed at time 0 for one second; at time 1 owner-b claimed and got
\* the lease, which no finish and no reconcile had touched
C30_Witness ==
    /\ now = 1
    /\ ret.op = "claim" /\ ret.owner = "owner-b" /\ ret.at = 1
    /\ ret.claimed /\ ret.reason = "claimed"
    /\ lease["t1"].owner_id = "owner-b"
    /\ lease["t1"].lease_status = "running"
    /\ lease["t1"].attempt_count = 2
    /\ lease["t1"].last_error = ""


\* C31: reconcile_dispatch_leases puts every queued or running lease whose
\* expiry has passed back to queued with last_error lease_expired_reconciled,
\* keeping its attempt_count and expiry; every other lease (active and not
\* expired, or terminal) keeps all its columns; no task changes
C31_ReconcileFrame ==
    [][ ret'.op = "reconcile"
          => /\ task' = task
             /\ \A t \in TaskIds :
                  IF /\ lease[t].lease_status \in ACTIVE_LEASE_STATUSES
                     /\ lease[t].lease_expires_at <= now
                  THEN lease'[t] = [lease[t] EXCEPT !.owner_id = ret'.owner,
                                                    !.lease_status = "queued",
                                                    !.last_error = "lease_expired_reconciled"]
                  ELSE lease'[t] = lease[t]
      ]_vars

\* owner-b reconciled the expired lease that owner-a had claimed
C31_Witness ==
    /\ ret.op = "reconcile" /\ ret.owner = "owner-b" /\ ret.reconciled = 1
    /\ lease["t1"].lease_status = "queued"
    /\ lease["t1"].owner_id = "owner-b"
    /\ lease["t1"].attempt_count = 1
    /\ lease["t1"].last_error = "lease_expired_reconciled"
    /\ lease["t1"].lease_expires_at <= now


-----------------------------------------------------------------------------
(* Properties of record_review, the policy evaluator and the compaction *)

\* C32: record_review writes the reviewer artifact only when the task is
\* HEAVY, a fail verdict comes with a reason code of the closed set and a
\* pass verdict with a checklist whose five values are true; every other
\* call on an existing task ends with InvalidArgument and leaves the
\* artifacts (and so the gate) and the event log as they were
C32_ReviewOnlyValid ==
    [][ ret'.op = "record_review"
          => LET t == ret'.task
                 valid == /\ task[t] # NoTask
                          /\ task[t].route_class = "UBUNTU_HEAVY"
                          /\ \/ ret'.verdict = "fail" /\ ret'.reason_ok
                                  /\ ret'.checklist # "not_json"
                             \/ ret'.verdict = "pass" /\ ret'.checklist = "all_true"
             IN  /\ ret'.result = "ok" <=> valid
                 /\ ( task[t] # NoTask /\ ~valid ) => ret'.result = "InvalidArgument"
                 /\ ret'.result # "ok"
                      => /\ artifacts' = artifacts
                         /\ events' = events
                         /\ GatePassed(artifacts'[t]) = GatePassed(artifacts[t])
                 /\ ret'.result = "ok" => artifacts'[t].verdict = ret'.verdict
      ]_vars

\* a pass review with an incomplete checklist was refused after a fail review
\* had been recorded: the fail artifact is still there
C32_Witness ==
    /\ ret.op = "record_review" /\ ret.result = "InvalidArgument"
    /\ ret.verdict = "pass" /\ ret.checklist = "some_false"
    /\ artifacts[ret.task].verdict = "fail"


\* C33: the token estimate of the text the compaction returns is at most the
\* budget it was given, for every text and every positive budget
C33_WithinBudget ==
    ret.op = "compact" => ret.out_tokens <= script.budget


\* C34: the evaluator answers with the first rule that matches, in the order
\* readonly_mode, unknown_task_type (task type not in the allowlist),
\* blocked_prompt_keyword, blocked_path_pattern, the last three under strict
\* enforcement only; otherwise it allows
C34_FirstMatchingRule ==
    ret.op = "evaluate_execution_policy"
    => ret.reason =
         IF script.mode = "readonly" THEN "readonly_mode"
         ELSE IF script.enforcement = "warn" THEN "allowed"
         ELSE IF script.task_type \notin script.allowed THEN "unknown_task_type"
         ELSE IF script.keyword THEN "blocked_prompt_keyword"
         ELSE IF script.path THEN "blocked_path_pattern"
         ELSE "allowed"


-----------------------------------------------------------------------------
(* Properties of the task metadata and the trace *)

\* C35: a merge_task_metadata call that succeeds sets the keys of its patch
\* to the patch's values, leaves every other key of the metadata as it was
\* before the call's write, leaves the status, and appends a metadata_updated
\* event
C35_MergeKeepsOtherKeys ==
    [][ ( ret'.op = "merge_metadata" /\ ret'.result = "ok" )
          => LET t == ret'.task
                 before == task[t].metadata
                 after == task'[t].metadata
             IN  /\ DOMAIN after = DOMAIN before \cup DOMAIN ret'.patch
                 /\ \A k \in DOMAIN ret'.patch : after[k] = ret'.patch[k]
                 /\ \A k \in DOMAIN before \ DOMAIN ret'.patch : after[k] = before[k]
                 /\ task'[t].status = task[t].status
                 /\ Len(events[t]) < MaxEvents
                      => events'[t] = Append(events[t], Event("metadata_updated", ""))
      ]_vars


\* C36: a route call that is given a trace id creates the task with trace_id
\* in its metadata, and a trace_events query for that id then returns events
\* of that task and only events that carry that id
C36_TraceStoredAndFound ==
    /\ ret.op = "route_task"
         => /\ ret.result = "ok"
            /\ ret.task \in TaskIds
            /\ "trace_id" \in RouteMetadataKeys
            /\ trace_events(ret.trace_id)[ret.task] # <<>>
    /\ ret.op = "trace_events"
         => \A t \in TaskIds : \A i \in 1..Len(ret.events[t]) :
                ret.events[t][i].detail = TraceDetail[ret.trace_id]


-----------------------------------------------------------------------------
\* Properties of the end of a dispatch and of the stale owner

\* the return of a call of p that ran the worker and wrote the final status
DispatchReturns(p) ==
    /\ proc[p].pc = "return"
    /\ proc[p].out.event = "telemetry"
    /\ proc[p].mode # "readonly"
    /\ proc'[p] = Idle
    /\ ret'.op = proc[p].call
    /\ ret'.by = p

\* the three records of task t agree on the dispatch status s of attempt n
RecordsAgree(t, n, s) ==
    /\ idem[DispatchKey(t, n)].status = "completed"
    /\ idem[DispatchKey(t, n)].result = s
    /\ task[t].status = s
    /\ lease[t].lease_status = IF s \in LEASE_TERMINAL THEN s ELSE "running"

\* C37: when a dispatch call whose worker was invoked returns normally with
\* dispatch status s, the idempotency key of the attempt is completed with s,
\* the task's status is s and the lease is in status s when s is terminal and
\* running otherwise; the heartbeat of a non-terminal dispatch moves the expiry
\* to dispatch_lease_seconds after the heartbeat, never backwards
C37_RecordsAgreeAtReturn ==
    [][ /\ \A p \in ProcIds :
             DispatchReturns(p)
               => /\ ret'.status = proc[p].result
                  /\ RecordsAgree(proc[p].task, proc[p].attempt, proc[p].result)
        /\ ( ret'.op = "heartbeat" /\ ret'.result = "ok" )
             => /\ lease'[ret'.task].lease_expires_at = now + dispatch_lease_seconds
                /\ lease'[ret'.task].lease_expires_at >= lease[ret'.task].lease_expires_at
      ]_vars



\* C38: heartbeat_dispatch_lease and finish_dispatch_lease called by an owner
\* who is not the owner of the lease row (as owner A is after owner B
\* reclaimed A's expired lease) end with an error and leave every column of
\* the lease as it was; heartbeat does the same on a lease that is not running
C38_StaleOwnerRefused ==
    [][ /\ ( /\ ret'.op \in {"heartbeat", "finish"}
             /\ lease[ret'.task].owner_id # ret'.owner )
           => ret'.result # "ok" /\ lease' = lease
        /\ ( /\ ret'.op = "heartbeat"
             /\ lease[ret'.task].lease_status # "running" )
           => ret'.result # "ok" /\ lease' = lease
      ]_vars

\* owner-a is refused on the lease that owner-b holds on its second attempt,
\* claimed at or after the expiry of the first
C38_Witness ==
    /\ ret.op \in {"heartbeat", "finish"}
    /\ ret.owner = "owner-a"
    /\ ret.result = "InvalidArgument" /\ ret.reason = "owner_mismatch"
    /\ lease["t1"].owner_id = "owner-b"
    /\ lease["t1"].lease_status = "running"
    /\ lease["t1"].attempt_count = 2
    /\ lease["t1"].lease_expires_at > now


-----------------------------------------------------------------------------
\* Properties of a rejected approval and of route_task on HEAVY tasks

TaskRows == {t \in TaskIds : task[t] # NoTask}

\* p is inside a route_task call on a task classified UBUNTU_HEAVY
RoutingHeavy(p) ==
    /\ proc[p].pc # "idle"
    /\ proc[p].call = "route"
    /\ task[proc[p].task].route_class = "UBUNTU_HEAVY"

\* C40: a route_task call on a task it classified UBUNTU_HEAVY runs no worker
\* and, when it returns, returns blocked and leaves the task blocked; the call
\* creates one task row, at its start, and none after; a worker is run for a
\* HEAVY task only inside an approve_task or resume_task call
C40_HeavyRouteBlocks ==
    [][ /\ \A p \in ProcIds :
             ( RoutingHeavy(p) /\ proc'[p] # proc[p] )
               => /\ runs' = runs
                  /\ TaskRows' = TaskRows
                  /\ ( proc[p].pc = "return" /\ ret'.result = "ok" )
                       => /\ ret'.status = "blocked"
                          /\ task'[proc[p].task].status = "blocked"
        /\ \A p \in ProcIds :
             ( proc[p] = Idle /\ proc'[p] # Idle /\ proc'[p].call = "route" )
               => /\ Cardinality(TaskRows') = Cardinality(TaskRows) + 1
                  /\ TaskRows' = TaskRows \cup {proc'[p].task}
        /\ \A t \in TaskIds :
             ( task[t].route_class = "UBUNTU_HEAVY" /\ runs'[t] # runs[t] )
               => \E p \in ProcIds : /\ proc[p].pc = "disp_worker"
                                     /\ proc[p].task = t
                                     /\ proc[p].call \in {"approve", "resume"}
      ]_vars

\* route_task has returned blocked for a HEAVY task that needs no approval:
\* only the planner/reviewer gate holds it
C40_Witness ==
    /\ ret.op = "route" /\ ret.result = "ok" /\ ret.status = "blocked"
    /\ task["t1"].route_class = "UBUNTU_HEAVY"
    /\ task["t1"].status = "blocked"
    /\ ~task["t1"].requires_approval
    /\ policy["t1"] = "allow"
    /\ TotalRuns("t1") = 0
    /\ TaskRows = {"t1"}

=============================================================================
